---- MODULE Spec2Model ----
(***************************************************************************)
(* Iterated Prisoner's Dilemma: IteratedMatch (pd_core/game.py), Player    *)
(* (pd_core/player.py), Noise (pd_core/noise.py), the built-in strategies  *)
(* (strategies/*.py) and RoundRobinTournament (pd_core/tournament.py).     *)
(*                                                                         *)
(* Probabilities and uniform draws are counted in quarters: 0 is 0.0, 2 is *)
(* 0.5, 4 is 1.0; a draw of random() lies in [0,1), that is in 0..3.       *)
(* An Optional value is <<>> (None) or <<v>>; an Optional action is the    *)
(* string "None" or an action.                                             *)
(***************************************************************************)
EXTENDS Integers, Sequences, FiniteSets, TLC

VARIABLES
    players,    \* the Player objects: strategy, name, seed and generator
    tape,       \* per seeded stream, the values it has produced so far
    matches,    \* the IteratedMatch objects
    pc,         \* per match: "absent", "idle", "running" or "raised"
    frame,      \* per match, the locals of play(): log, a_prev, b_prev, round_index,
                \* and asked, the calls the two strategies received in the last round
    calls,      \* per match, the play() calls made on it
    returned,   \* per match, what its play() calls returned: (outcome, log)
    err,        \* per match, the message of the last ValueError raised, or "none"
    tour,       \* the RoundRobinTournament object
    tpc,        \* the tournament: "absent", "idle", "running", "playing" or "raised"
    tframe,     \* the locals of run(): position in the two loops, and matches
    results,    \* what the run() calls returned: TournamentResults
    terr,       \* the message of the ValueError the tournament raised, or "none"
    sobj,       \* the strategy object called directly (as the tests do), or None
    srng,       \* the generator handed to the direct calls
    hist,       \* the direct calls made: operation, arguments, result, generator
    serr        \* the message of the ValueError a strategy constructor raised, or "none"

tvars == <<tour, tpc, tframe, results, terr>>

dvars == <<sobj, srng, hist, serr>>

vars == <<players, tape, matches, pc, frame, calls, returned, err, tvars, dvars>>

None == <<>>
Some(v) == <<v>>

\* 1.0 in quarters: the exclusive upper end of random() and of continuation_prob.
Unit == 4

\* ----------------------------------------------------------------- bounds
\* Rounds one play() may log before the model stops following it.
MaxRounds == 2
\* play() calls followed on one IteratedMatch object.
MaxPlays == 2
\* Largest repetitions argument of a tournament.
MaxReps == 2
\* run() calls followed on one RoundRobinTournament object.
MaxRuns == 2
\* Largest n_rounds of the matches with fixed termination only.
MaxFixed == 3
\* Direct calls of Noise.apply or PayoffMatrix.payoff followed in a row.
MaxCalls == 2
\* Direct calls followed on one strategy object, its construction included.
MaxMoves == 4

\* ------------------------------------------------------------ input sets
\* Values random() returns: exactly 0.0 and 0.75.
Draws == {0, 3}
PlayerIds == 1..4
MatchIds == {1, 2}
Streams == 0..(MaxReps + 1)

\* ------------------------------------------------------------- game.py
Actions == {"C", "D"}

PayoffMatrix == [temptation |-> 5, reward |-> 3, punishment |-> 1, sucker |-> 0]

Abs(n) == IF n < 0 THEN -n ELSE n

\* random.Random(seed): an integer seed selects the stream of its absolute
\* value; no seed gives a generator seeded from entropy.
make_rng(seed) ==
    [stream |-> IF seed = None THEN None ELSE Some(Abs(seed[1])), pos |-> 0]

\* One call of rng.random(): every (value, generator, tape) it can produce.
\* A seeded stream repeats what the tape already holds for its position.
random(rng, tp) ==
    LET adv == [rng EXCEPT !.pos = @ + 1] IN
    IF rng.stream = None
    THEN {[value |-> d, rng |-> adv, tape |-> tp] : d \in Draws}
    ELSE LET s == rng.stream[1] IN
         IF rng.pos < Len(tp[s])
         THEN {[value |-> tp[s][rng.pos + 1], rng |-> adv, tape |-> tp]}
         ELSE {[value |-> d, rng |-> adv,
                tape |-> [tp EXCEPT ![s] = Append(@, d)]] : d \in Draws}

\* ------------------------------------------------------------- noise.py
flip(action) == IF action = "C" THEN "D" ELSE "C"

\* NoiseApply that skips the draw only below zero.
NoiseApply_draws_at_zero(epsilon, action, rng, tp) ==
    IF epsilon < 0
    THEN {[action |-> action, rng |-> rng, tape |-> tp]}
    ELSE {[action |-> IF r.value <= epsilon THEN flip(action) ELSE action,
           rng |-> r.rng, tape |-> r.tape] : r \in random(rng, tp)}

\* NoiseApply that flips only below epsilon.
NoiseApply_strict(epsilon, action, rng, tp) ==
    IF epsilon <= 0
    THEN {[action |-> action, rng |-> rng, tape |-> tp]}
    ELSE {[action |-> IF r.value < epsilon THEN flip(action) ELSE action,
           rng |-> r.rng, tape |-> r.tape] : r \in random(rng, tp)}

\* Noise(epsilon).apply(action, rng): every (action, generator, tape).
NoiseApply(epsilon, action, rng, tp) ==
    IF epsilon <= 0
    THEN {[action |-> action, rng |-> rng, tape |-> tp]}
    ELSE {[action |-> IF r.value <= epsilon THEN flip(action) ELSE action,
           rng |-> r.rng, tape |-> r.tape] : r \in random(rng, tp)}

\* ------------------------------------------ strategies/*.py, strategy.py
\* A strategy object: its class (kind), its probability parameter (p of
\* RandomStrategy, forgive_p of GenerousTitForTat, 0 otherwise) and the private
\* memory of the classes that keep one.  FAULTY is a Strategy implementation
\* outside the built-ins that returns "X", a value outside Actions: from its
\* first move on when p = 0, from its second move on otherwise.
Strategy(kind, p) ==
    [kind |-> kind, p |-> p, _defection_streak |-> 0, _betrayed |-> FALSE,
     _last_action |-> "C"]

\* strategy_init_error that rejects the two endpoints.
strategy_init_error_open(kind, p) ==
    IF kind = "RAND" /\ ~(0 < p /\ p < Unit) THEN "p must be between 0 and 1"
    ELSE IF kind = "GTFT" /\ ~(0 < p /\ p < Unit) THEN "forgive_p must be between 0 and 1"
    ELSE "none"

\* The check at the head of RandomStrategy.__init__ and of
\* GenerousTitForTat.__init__: the message of the ValueError, or "none".
strategy_init_error(kind, p) ==
    IF kind = "RAND" /\ ~(0 <= p /\ p <= Unit) THEN "p must be between 0 and 1"
    ELSE IF kind = "GTFT" /\ ~(0 <= p /\ p <= Unit) THEN "forgive_p must be between 0 and 1"
    ELSE "none"

ProbText(p) == IF p = 0 THEN "0.00" ELSE IF p = 2 THEN "0.50" ELSE "1.00"

StrategyName(s) ==
    IF s.kind = "RAND" THEN "RAND(" \o ProbText(s.p) \o ")"
    ELSE IF s.kind = "GTFT" THEN "GTFT(" \o ProbText(s.p) \o ")"
    ELSE s.kind

Strategy_reset(s) ==
    IF s.kind = "TF2T" THEN [s EXCEPT !._defection_streak = 0]
    ELSE IF s.kind = "GRIM" THEN [s EXCEPT !._betrayed = FALSE]
    ELSE IF s.kind = "PAVLOV" THEN [s EXCEPT !._last_action = "C"]
    ELSE s

\* A move that draws nothing.
Decided(action, s, rng, tp) ==
    {[action |-> action, strategy |-> s, rng |-> rng, tape |-> tp]}

\* next_move whose TitForTwoTats keeps its streak over a non-defection.
next_move_streak_kept(s, my_last, opp_last, rng, tp) ==
    IF s.kind = "ALLC" THEN Decided("C", s, rng, tp)
    ELSE IF s.kind = "ALLD" THEN Decided("D", s, rng, tp)
    ELSE IF s.kind = "TFT"
    THEN Decided(IF opp_last = "None" THEN "C" ELSE opp_last, s, rng, tp)
    ELSE IF s.kind = "TF2T"
    THEN LET streak == IF opp_last = "D" THEN s._defection_streak + 1
                       ELSE s._defection_streak IN
         Decided(IF streak >= 2 THEN "D" ELSE "C",
                 [s EXCEPT !._defection_streak = streak], rng, tp)
    ELSE IF s.kind = "GRIM"
    THEN LET betrayed == IF opp_last = "D" THEN TRUE ELSE s._betrayed IN
         Decided(IF betrayed THEN "D" ELSE "C",
                 [s EXCEPT !._betrayed = betrayed], rng, tp)
    ELSE IF s.kind = "PAVLOV"
    THEN Decided(IF my_last = "None" \/ opp_last = "None" THEN "C"
                 ELSE IF my_last = opp_last THEN my_last
                 ELSE IF my_last = "C" THEN "D" ELSE "C", s, rng, tp)
    ELSE IF s.kind = "RAND"
    THEN {[action |-> IF r.value <= s.p THEN "C" ELSE "D", strategy |-> s,
           rng |-> r.rng, tape |-> r.tape] : r \in random(rng, tp)}
    ELSE IF s.kind = "GTFT"
    THEN IF opp_last # "D"
         THEN Decided(IF opp_last = "None" THEN "C" ELSE opp_last, s, rng, tp)
         ELSE {[action |-> IF r.value <= s.p THEN "C" ELSE "D", strategy |-> s,
                rng |-> r.rng, tape |-> r.tape] : r \in random(rng, tp)}
    ELSE Decided("X", s, rng, tp)

\* next_move whose GrimTrigger looks at the last opponent action only.
next_move_forgiving(s, my_last, opp_last, rng, tp) ==
    IF s.kind = "ALLC" THEN Decided("C", s, rng, tp)
    ELSE IF s.kind = "ALLD" THEN Decided("D", s, rng, tp)
    ELSE IF s.kind = "TFT"
    THEN Decided(IF opp_last = "None" THEN "C" ELSE opp_last, s, rng, tp)
    ELSE IF s.kind = "TF2T"
    THEN LET streak == IF opp_last = "D" THEN s._defection_streak + 1 ELSE 0 IN
         Decided(IF streak >= 2 THEN "D" ELSE "C",
                 [s EXCEPT !._defection_streak = streak], rng, tp)
    ELSE IF s.kind = "GRIM"
    THEN LET betrayed == opp_last = "D" IN
         Decided(IF betrayed THEN "D" ELSE "C",
                 [s EXCEPT !._betrayed = betrayed], rng, tp)
    ELSE IF s.kind = "PAVLOV"
    THEN Decided(IF my_last = "None" \/ opp_last = "None" THEN "C"
                 ELSE IF my_last = opp_last THEN my_last
                 ELSE IF my_last = "C" THEN "D" ELSE "C", s, rng, tp)
    ELSE IF s.kind = "RAND"
    THEN {[action |-> IF r.value <= s.p THEN "C" ELSE "D", strategy |-> s,
           rng |-> r.rng, tape |-> r.tape] : r \in random(rng, tp)}
    ELSE IF s.kind = "GTFT"
    THEN IF opp_last # "D"
         THEN Decided(IF opp_last = "None" THEN "C" ELSE opp_last, s, rng, tp)
         ELSE {[action |-> IF r.value <= s.p THEN "C" ELSE "D", strategy |-> s,
                rng |-> r.rng, tape |-> r.tape] : r \in random(rng, tp)}
    ELSE Decided("X", s, rng, tp)

\* next_move whose Pavlov stays after an opponent Cooperate and switches after
\* an opponent Defect.
next_move_win_stay(s, my_last, opp_last, rng, tp) ==
    IF s.kind = "ALLC" THEN Decided("C", s, rng, tp)
    ELSE IF s.kind = "ALLD" THEN Decided("D", s, rng, tp)
    ELSE IF s.kind = "TFT"
    THEN Decided(IF opp_last = "None" THEN "C" ELSE opp_last, s, rng, tp)
    ELSE IF s.kind = "TF2T"
    THEN LET streak == IF opp_last = "D" THEN s._defection_streak + 1 ELSE 0 IN
         Decided(IF streak >= 2 THEN "D" ELSE "C",
                 [s EXCEPT !._defection_streak = streak], rng, tp)
    ELSE IF s.kind = "GRIM"
    THEN LET betrayed == IF opp_last = "D" THEN TRUE ELSE s._betrayed IN
         Decided(IF betrayed THEN "D" ELSE "C",
                 [s EXCEPT !._betrayed = betrayed], rng, tp)
    ELSE IF s.kind = "PAVLOV"
    THEN Decided(IF my_last = "None" \/ opp_last = "None" THEN "C"
                 ELSE IF opp_last = "C" THEN my_last
                 ELSE IF my_last = "C" THEN "D" ELSE "C", s, rng, tp)
    ELSE IF s.kind = "RAND"
    THEN {[action |-> IF r.value <= s.p THEN "C" ELSE "D", strategy |-> s,
           rng |-> r.rng, tape |-> r.tape] : r \in random(rng, tp)}
    ELSE IF s.kind = "GTFT"
    THEN IF opp_last # "D"
         THEN Decided(IF opp_last = "None" THEN "C" ELSE opp_last, s, rng, tp)
         ELSE {[action |-> IF r.value <= s.p THEN "C" ELSE "D", strategy |-> s,
                rng |-> r.rng, tape |-> r.tape] : r \in random(rng, tp)}
    ELSE Decided("X", s, rng, tp)

\* next_move whose GenerousTitForTat forgives only below forgive_p.
next_move_seldom_generous(s, my_last, opp_last, rng, tp) ==
    IF s.kind = "ALLC" THEN Decided("C", s, rng, tp)
    ELSE IF s.kind = "ALLD" THEN Decided("D", s, rng, tp)
    ELSE IF s.kind = "TFT"
    THEN Decided(IF opp_last = "None" THEN "C" ELSE opp_last, s, rng, tp)
    ELSE IF s.kind = "TF2T"
    THEN LET streak == IF opp_last = "D" THEN s._defection_streak + 1 ELSE 0 IN
         Decided(IF streak >= 2 THEN "D" ELSE "C",
                 [s EXCEPT !._defection_streak = streak], rng, tp)
    ELSE IF s.kind = "GRIM"
    THEN LET betrayed == IF opp_last = "D" THEN TRUE ELSE s._betrayed IN
         Decided(IF betrayed THEN "D" ELSE "C",
                 [s EXCEPT !._betrayed = betrayed], rng, tp)
    ELSE IF s.kind = "PAVLOV"
    THEN Decided(IF my_last = "None" \/ opp_last = "None" THEN "C"
                 ELSE IF my_last = opp_last THEN my_last
                 ELSE IF my_last = "C" THEN "D" ELSE "C", s, rng, tp)
    ELSE IF s.kind = "RAND"
    THEN {[action |-> IF r.value <= s.p THEN "C" ELSE "D", strategy |-> s,
           rng |-> r.rng, tape |-> r.tape] : r \in random(rng, tp)}
    ELSE IF s.kind = "GTFT"
    THEN IF opp_last # "D"
         THEN Decided(IF opp_last = "None" THEN "C" ELSE opp_last, s, rng, tp)
         ELSE {[action |-> IF r.value < s.p THEN "C" ELSE "D", strategy |-> s,
                rng |-> r.rng, tape |-> r.tape] : r \in random(rng, tp)}
    ELSE Decided("X", s, rng, tp)

\* strategy.next_move(my_last, opp_last, rng): every (action, strategy after
\* the call, generator, tape) it can produce.
next_move(s, my_last, opp_last, rng, tp) ==
    IF s.kind = "ALLC" THEN Decided("C", s, rng, tp)
    ELSE IF s.kind = "ALLD" THEN Decided("D", s, rng, tp)
    ELSE IF s.kind = "TFT"
    THEN Decided(IF opp_last = "None" THEN "C" ELSE opp_last, s, rng, tp)
    ELSE IF s.kind = "TF2T"
    THEN LET streak == IF opp_last = "D" THEN s._defection_streak + 1 ELSE 0 IN
         Decided(IF streak >= 2 THEN "D" ELSE "C",
                 [s EXCEPT !._defection_streak = streak], rng, tp)
    ELSE IF s.kind = "GRIM"
    THEN LET betrayed == IF opp_last = "D" THEN TRUE ELSE s._betrayed IN
         Decided(IF betrayed THEN "D" ELSE "C",
                 [s EXCEPT !._betrayed = betrayed], rng, tp)
    ELSE IF s.kind = "PAVLOV"
    THEN Decided(IF my_last = "None" \/ opp_last = "None" THEN "C"
                 ELSE IF my_last = opp_last THEN my_last
                 ELSE IF my_last = "C" THEN "D" ELSE "C", s, rng, tp)
    ELSE IF s.kind = "RAND"
    THEN {[action |-> IF r.value <= s.p THEN "C" ELSE "D", strategy |-> s,
           rng |-> r.rng, tape |-> r.tape] : r \in random(rng, tp)}
    ELSE IF s.kind = "GTFT"
    THEN IF opp_last # "D"
         THEN Decided(IF opp_last = "None" THEN "C" ELSE opp_last, s, rng, tp)
         ELSE {[action |-> IF r.value <= s.p THEN "C" ELSE "D", strategy |-> s,
                rng |-> r.rng, tape |-> r.tape] : r \in random(rng, tp)}
    ELSE Decided("X", s, rng, tp)

\* strategy.first_move(rng); StatelessStrategy.first_move delegates to
\* next_move(None, None, rng).
first_move(s, rng, tp) ==
    IF s.kind \in {"ALLC", "ALLD", "RAND"} THEN next_move(s, "None", "None", rng, tp)
    ELSE IF s.kind \in {"TFT", "GTFT"} THEN Decided("C", s, rng, tp)
    ELSE IF s.kind = "TF2T"
    THEN Decided("C", [s EXCEPT !._defection_streak = 0], rng, tp)
    ELSE IF s.kind = "GRIM" THEN Decided("C", [s EXCEPT !._betrayed = FALSE], rng, tp)
    ELSE IF s.kind = "PAVLOV" THEN Decided("C", [s EXCEPT !._last_action = "C"], rng, tp)
    ELSE Decided(IF s.p = 0 THEN "X" ELSE "C", s, rng, tp)

\* ------------------------------------------------------------ player.py
Player(strategy, name, seed) ==
    [strategy |-> strategy, name |-> name, seed |-> seed, rng |-> make_rng(seed)]

display_name(p) ==
    IF p.name = None \/ p.name = Some("") THEN StrategyName(p.strategy) ELSE p.name[1]

\* Player_reset that never re-seeds the generator.
Player_reset_no_reseed(p) == [p EXCEPT !.strategy = Strategy_reset(@)]

\* Player_reset that leaves the strategy as it is.
Player_reset_rng_only(p) ==
    [p EXCEPT !.rng = IF p.seed # None THEN make_rng(p.seed) ELSE @]

\* Player_reset that re-seeds only when the seed is neither None nor 0.
Player_reset_truthy_seed(p) ==
    [p EXCEPT !.strategy = Strategy_reset(@),
              !.rng = IF p.seed # None /\ p.seed # Some(0) THEN make_rng(p.seed) ELSE @]

\* Player.reset(): strategy.reset(), and a generator re-seeded from the seed
\* when one was given.
Player_reset(p) ==
    [p EXCEPT !.strategy = Strategy_reset(@),
              !.rng = IF p.seed # None THEN make_rng(p.seed) ELSE @]

\* player.first_move() / player.next_move(my_last, opp_last): the strategy is
\* asked with the player's own generator; the result is the player after the
\* call.
Player_first_move(p, tp) ==
    {[action |-> r.action, player |-> [p EXCEPT !.strategy = r.strategy, !.rng = r.rng],
      tape |-> r.tape] : r \in first_move(p.strategy, p.rng, tp)}

Player_next_move(p, my_last, opp_last, tp) ==
    {[action |-> r.action, player |-> [p EXCEPT !.strategy = r.strategy, !.rng = r.rng],
      tape |-> r.tape] : r \in next_move(p.strategy, my_last, opp_last, p.rng, tp)}

\* -------------------------------------------------------------- game.py
\* PayoffMatrix.payoff(a, b) raises ValueError unless both are in Actions.
payoff_raises(a, b) == a \notin Actions \/ b \notin Actions

\* payoff that pays the defector's side first in both mixed rounds.
payoff_one_sided(mx, a, b) ==
    IF a = "C" /\ b = "C" THEN <<mx.reward, mx.reward>>
    ELSE IF a = "C" /\ b = "D" THEN <<mx.temptation, mx.sucker>>
    ELSE IF a = "D" /\ b = "C" THEN <<mx.temptation, mx.sucker>>
    ELSE <<mx.punishment, mx.punishment>>

payoff(mx, a, b) ==
    IF a = "C" /\ b = "C" THEN <<mx.reward, mx.reward>>
    ELSE IF a = "C" /\ b = "D" THEN <<mx.sucker, mx.temptation>>
    ELSE IF a = "D" /\ b = "C" THEN <<mx.temptation, mx.sucker>>
    ELSE <<mx.punishment, mx.punishment>>

MatchLog == [actions_a |-> <<>>, actions_b |-> <<>>, payoff_a |-> <<>>, payoff_b |-> <<>>]

\* append() with the two payoffs stored in each other's list.
append_payoffs_crossed(log, a, b, pa, pb) ==
    [actions_a |-> Append(log.actions_a, a), actions_b |-> Append(log.actions_b, b),
     payoff_a |-> Append(log.payoff_a, pb), payoff_b |-> Append(log.payoff_b, pa)]

\* MatchLog.append(a, b, pa, pb): one entry on each of the four lists.
append(log, a, b, pa, pb) ==
    [actions_a |-> Append(log.actions_a, a), actions_b |-> Append(log.actions_b, b),
     payoff_a |-> Append(log.payoff_a, pa), payoff_b |-> Append(log.payoff_b, pb)]

rounds(log) == Len(log.actions_a)

\* MatchLog.as_rows(): the rows (idx, a, b, pa, pb), idx counted from 0.
as_rows(log) ==
    [i \in 1..Len(log.actions_a) |->
        <<i - 1, log.actions_a[i], log.actions_b[i], log.payoff_a[i], log.payoff_b[i]>>]

RECURSIVE sum(_)
sum(q) == IF q = <<>> THEN 0 ELSE Head(q) + sum(Tail(q))

count(q, x) == Cardinality({i \in 1..Len(q) : q[i] = x})

\* A quotient n / d is kept as the pair <<n, d>>.
cooperation_rate_a(log) ==
    IF rounds(log) # 0 THEN <<count(log.actions_a, "C"), rounds(log)>> ELSE <<0, 1>>

\* cooperation_rate_b that counts side A's actions.
cooperation_rate_b_of_a(log) ==
    IF rounds(log) # 0 THEN <<count(log.actions_a, "C"), rounds(log)>> ELSE <<0, 1>>

cooperation_rate_b(log) ==
    IF rounds(log) # 0 THEN <<count(log.actions_b, "C"), rounds(log)>> ELSE <<0, 1>>

\* _build_outcome that divides by the number of rounds as it is.
_build_outcome_unguarded(log) ==
    LET total_payoff_a == sum(log.payoff_a)
        total_payoff_b == sum(log.payoff_b)
        n == rounds(log)
    IN  [total_payoff_a |-> total_payoff_a, total_payoff_b |-> total_payoff_b,
         mean_payoff_a |-> <<total_payoff_a, n>>, mean_payoff_b |-> <<total_payoff_b, n>>,
         cooperation_rate_a |-> cooperation_rate_a(log),
         cooperation_rate_b |-> cooperation_rate_b(log)]

\* _build_outcome that reports the totals as the means.
_build_outcome_undivided(log) ==
    LET total_payoff_a == sum(log.payoff_a)
        total_payoff_b == sum(log.payoff_b)
    IN  [total_payoff_a |-> total_payoff_a, total_payoff_b |-> total_payoff_b,
         mean_payoff_a |-> <<total_payoff_a, 1>>, mean_payoff_b |-> <<total_payoff_b, 1>>,
         cooperation_rate_a |-> cooperation_rate_a(log),
         cooperation_rate_b |-> cooperation_rate_b(log)]

\* IteratedMatch._build_outcome(log): totals, means and cooperation rates.
_build_outcome(log) ==
    LET total_payoff_a == sum(log.payoff_a)
        total_payoff_b == sum(log.payoff_b)
        n == IF rounds(log) # 0 THEN rounds(log) ELSE 1
    IN  [total_payoff_a |-> total_payoff_a, total_payoff_b |-> total_payoff_b,
         mean_payoff_a |-> <<total_payoff_a, n>>, mean_payoff_b |-> <<total_payoff_b, n>>,
         cooperation_rate_a |-> cooperation_rate_a(log),
         cooperation_rate_b |-> cooperation_rate_b(log)]

\* init_error with the upper end of continuation_prob's range included.
init_error_closed(n_rounds, continuation_prob) ==
    IF continuation_prob # None
       /\ ~(0 <= continuation_prob[1] /\ continuation_prob[1] <= Unit)
    THEN "continuation_prob must be in [0, 1)"
    ELSE IF n_rounds = None /\ continuation_prob = None
    THEN "either n_rounds or continuation_prob must be provided"
    ELSE "none"

\* The check at the head of IteratedMatch.__init__: the message of the
\* ValueError it raises, or "none".
init_error(n_rounds, continuation_prob) ==
    IF continuation_prob # None
       /\ ~(0 <= continuation_prob[1] /\ continuation_prob[1] < Unit)
    THEN "continuation_prob must be in [0, 1)"
    ELSE IF n_rounds = None /\ continuation_prob = None
    THEN "either n_rounds or continuation_prob must be provided"
    ELSE "none"

\* The fields IteratedMatch.__init__ sets; seed is the constructor's seed
\* argument, from which rng is made.
IteratedMatch(a, b, noise, n_rounds, continuation_prob, seed) ==
    [player_a |-> a, player_b |-> b, payoff_matrix |-> PayoffMatrix, noise |-> noise,
     n_rounds |-> n_rounds, continuation_prob |-> continuation_prob,
     seed |-> seed, rng |-> make_rng(seed)]

\* _continue that stops one round late under n_rounds.
_continue_inclusive(mt, round_index, tp) ==
    IF mt.n_rounds # None /\ round_index > mt.n_rounds[1]
    THEN {[result |-> FALSE, rng |-> mt.rng, tape |-> tp]}
    ELSE IF round_index = 0
    THEN {[result |-> TRUE, rng |-> mt.rng, tape |-> tp]}
    ELSE IF mt.continuation_prob = None
    THEN {[result |-> round_index <= (IF mt.n_rounds = None THEN 0 ELSE mt.n_rounds[1]),
           rng |-> mt.rng, tape |-> tp]}
    ELSE {[result |-> r.value < mt.continuation_prob[1], rng |-> r.rng, tape |-> r.tape]
          : r \in random(mt.rng, tp)}

\* _continue whose continuation draw never stops the match.
_continue_whatever_drawn(mt, round_index, tp) ==
    IF mt.n_rounds # None /\ round_index >= mt.n_rounds[1]
    THEN {[result |-> FALSE, rng |-> mt.rng, tape |-> tp]}
    ELSE IF round_index = 0
    THEN {[result |-> TRUE, rng |-> mt.rng, tape |-> tp]}
    ELSE IF mt.continuation_prob = None
    THEN {[result |-> round_index < (IF mt.n_rounds = None THEN 0 ELSE mt.n_rounds[1]),
           rng |-> mt.rng, tape |-> tp]}
    ELSE {[result |-> TRUE, rng |-> r.rng, tape |-> r.tape]
          : r \in random(mt.rng, tp)}

\* _continue that looks at n_rounds only when continuation_prob is None.
_continue_draw_only(mt, round_index, tp) ==
    IF mt.continuation_prob = None /\ mt.n_rounds # None /\ round_index >= mt.n_rounds[1]
    THEN {[result |-> FALSE, rng |-> mt.rng, tape |-> tp]}
    ELSE IF round_index = 0
    THEN {[result |-> TRUE, rng |-> mt.rng, tape |-> tp]}
    ELSE IF mt.continuation_prob = None
    THEN {[result |-> round_index < (IF mt.n_rounds = None THEN 0 ELSE mt.n_rounds[1]),
           rng |-> mt.rng, tape |-> tp]}
    ELSE {[result |-> r.value < mt.continuation_prob[1], rng |-> r.rng, tape |-> r.tape]
          : r \in random(mt.rng, tp)}

\* _continue that draws before round 0 as before every other round.
_continue_draws_first(mt, round_index, tp) ==
    IF mt.n_rounds # None /\ round_index >= mt.n_rounds[1]
    THEN {[result |-> FALSE, rng |-> mt.rng, tape |-> tp]}
    ELSE IF mt.continuation_prob = None
    THEN {[result |-> round_index < (IF mt.n_rounds = None THEN 0 ELSE mt.n_rounds[1]),
           rng |-> mt.rng, tape |-> tp]}
    ELSE {[result |-> round_index = 0 \/ r.value < mt.continuation_prob[1],
           rng |-> r.rng, tape |-> r.tape]
          : r \in random(mt.rng, tp)}

\* self._continue(round_index): every (result, match generator, tape).
_continue(mt, round_index, tp) ==
    IF mt.n_rounds # None /\ round_index >= mt.n_rounds[1]
    THEN {[result |-> FALSE, rng |-> mt.rng, tape |-> tp]}
    ELSE IF round_index = 0
    THEN {[result |-> TRUE, rng |-> mt.rng, tape |-> tp]}
    ELSE IF mt.continuation_prob = None
    THEN {[result |-> round_index < (IF mt.n_rounds = None THEN 0 ELSE mt.n_rounds[1]),
           rng |-> mt.rng, tape |-> tp]}
    ELSE {[result |-> r.value < mt.continuation_prob[1], rng |-> r.rng, tape |-> r.tape]
          : r \in random(mt.rng, tp)}

\* self._apply_noise(action) with the match generator mrng.
_apply_noise(mt, action, mrng, tp) ==
    IF mt.noise = None
    THEN {[action |-> action, rng |-> mrng, tape |-> tp]}
    ELSE NoiseApply(mt.noise[1], action, mrng, tp)

\* Both sides' raw decisions of one round, side A first: every (a_action,
\* b_action, players, tape), with the call each side received (asked).
moves(mt, fr, ps, tp) ==
    LET a == mt.player_a
        b == mt.player_b
        first == fr.round_index = 0
        a_args == <<fr.a_prev, fr.b_prev>>
        b_args == <<fr.b_prev, fr.a_prev>>
        of_a == IF first THEN Player_first_move(ps[a], tp)
                ELSE Player_next_move(ps[a], a_args[1], a_args[2], tp)
        of_b(ps1, tp1) == IF first THEN Player_first_move(ps1[b], tp1)
                          ELSE Player_next_move(ps1[b], b_args[1], b_args[2], tp1)
        asked == IF first THEN <<<<"first_move">>, <<"first_move">>>>
                 ELSE <<<<"next_move">> \o a_args, <<"next_move">> \o b_args>>
    IN  UNION {LET ps1 == [ps EXCEPT ![a] = ra.player] IN
               {[a_action |-> ra.action, b_action |-> rb.action, asked |-> asked,
                 players |-> [ps1 EXCEPT ![b] = rb.player], tape |-> rb.tape]
                : rb \in of_b(ps1, ra.tape)} : ra \in of_a}

\* The body of play()'s loop up to the payoff lookup: every (a_eff, b_eff,
\* players, match generator, tape) one round can produce, the match generator
\* being mrng when the body starts; a_action and b_action are the raw
\* decisions, asked the calls that produced them.
round_body(mt, fr, ps, mrng, tp) ==
    UNION {UNION {{[a_eff |-> na.action, b_eff |-> nb.action,
                    a_action |-> mv.a_action, b_action |-> mv.b_action,
                    asked |-> mv.asked, players |-> mv.players,
                    rng |-> nb.rng, tape |-> nb.tape]
                   : nb \in _apply_noise(mt, mv.b_action, na.rng, na.tape)}
                  : na \in _apply_noise(mt, mv.a_action, mrng, mv.tape)}
           : mv \in moves(mt, fr, ps, tp)}

NoMatch == IteratedMatch(1, 1, None, None, None, None)

NewFrame ==
    [log |-> MatchLog, a_prev |-> "None", b_prev |-> "None", round_index |-> 0,
     asked |-> <<>>]

\* -------------------------------------------------------- tournament.py
\* A quotient as a pair: sum and equality.
frac_add(x, y) == <<x[1] * y[2] + y[1] * x[2], x[2] * y[2]>>

frac_eq(x, y) == x[1] * y[2] = y[1] * x[2]

MatchSummary(player_a, player_b, outcome) ==
    [player_a |-> player_a, player_b |-> player_b, outcome |-> outcome]

setdefault(scores, key) ==
    IF key \in DOMAIN scores THEN scores ELSE scores @@ (key :> <<0, 1>>)

\* The loop of TournamentResults.leaderboard() over the summaries left.
RECURSIVE leaderboard_from(_, _)
leaderboard_from(scores, summaries) ==
    IF summaries = <<>> THEN scores
    ELSE LET summary == Head(summaries)
             s1 == setdefault(setdefault(scores, summary.player_a), summary.player_b)
             s2 == [s1 EXCEPT ![summary.player_a] =
                                 frac_add(@, summary.outcome.mean_payoff_a)]
             s3 == [s2 EXCEPT ![summary.player_b] =
                                 frac_add(@, summary.outcome.mean_payoff_b)]
         IN  leaderboard_from(s3, Tail(summaries))

leaderboard(summaries) == leaderboard_from(<<>>, summaries)

\* The pairs of positions i <= j: each Player also meets itself.
combinations_with_self(q) ==
    LET n == Len(q)
        P == {pr \in (1..n) \X (1..n) : pr[1] <= pr[2]}
        rank(pr) == Cardinality({x \in P : x[1] < pr[1] \/ (x[1] = pr[1] /\ x[2] < pr[2])})
    IN  [k \in 1..Cardinality(P) |->
            LET pr == CHOOSE x \in P : rank(x) = k - 1 IN <<q[pr[1]], q[pr[2]]>>]

\* itertools.combinations(q, 2): the pairs of positions i < j, by i, then j.
combinations(q) ==
    LET n == Len(q)
        P == {pr \in (1..n) \X (1..n) : pr[1] < pr[2]}
        rank(pr) == Cardinality({x \in P : x[1] < pr[1] \/ (x[1] = pr[1] /\ x[2] < pr[2])})
    IN  [k \in 1..Cardinality(P) |->
            LET pr == CHOOSE x \in P : rank(x) = k - 1 IN <<q[pr[1]], q[pr[2]]>>]

RoundRobinTournament(roster, noise, n_rounds, repetitions, seed) ==
    [players |-> roster, payoff_matrix |-> PayoffMatrix, noise |-> noise,
     n_rounds |-> n_rounds, repetitions |-> repetitions, seed |-> seed]

NoTournament == RoundRobinTournament(<<>>, None, 0, 1, None)

NewRun == [pair |-> 1, rep |-> 0, matches |-> <<>>]

\* match_seed that passes no seed on.
match_seed_dropped(seed, rep) == None

\* match_seed that gives every repetition the tournament's seed.
match_seed_shared(seed, rep) == seed

\* The seed run() gives the match of repetition rep.
match_seed(seed, rep) == IF seed = None THEN None ELSE Some(seed[1] + rep)

\* ------------------------------------------------------------- actions
\* IteratedMatch(a, b, noise=..., n_rounds=..., continuation_prob=..., seed=...)
\* into the free slot m: the object exists only when __init__ does not raise.
IteratedMatch_init(m, a, b, noise, n_rounds, continuation_prob, seed) ==
    /\ pc[m] = "absent"
    /\ \A o \in MatchIds : pc[o] # "running"
    /\ LET e == init_error(n_rounds, continuation_prob) IN
       IF e # "none"
       THEN /\ err' = [err EXCEPT ![m] = e]
            /\ UNCHANGED <<matches, pc>>
       ELSE /\ matches' = [matches EXCEPT
                             ![m] = IteratedMatch(a, b, noise, n_rounds,
                                                  continuation_prob, seed)]
            /\ pc' = [pc EXCEPT ![m] = "idle"]
            /\ err' = [err EXCEPT ![m] = "none"]
    /\ UNCHANGED <<players, tape, frame, calls, returned, tvars, dvars>>

\* IteratedMatch(a, b, payoff_matrix=..., noise=..., ...): as above, with the
\* payoff_matrix argument given or None (payoff_matrix or PayoffMatrix()).
IteratedMatch_init_matrix(m, a, b, payoff_matrix, noise, n_rounds, continuation_prob, seed) ==
    /\ pc[m] = "absent"
    /\ \A o \in MatchIds : pc[o] # "running"
    /\ LET e == init_error(n_rounds, continuation_prob) IN
       IF e # "none"
       THEN /\ err' = [err EXCEPT ![m] = e]
            /\ UNCHANGED <<matches, pc>>
       ELSE /\ matches' = [matches EXCEPT
                             ![m] = [IteratedMatch(a, b, noise, n_rounds,
                                                   continuation_prob, seed)
                                       EXCEPT !.payoff_matrix =
                                           IF payoff_matrix = None THEN PayoffMatrix
                                           ELSE payoff_matrix[1]]]
            /\ pc' = [pc EXCEPT ![m] = "idle"]
            /\ err' = [err EXCEPT ![m] = "none"]
    /\ UNCHANGED <<players, tape, frame, calls, returned, tvars, dvars>>

\* play() up to the loop: a new log, both players reset, side A first.
play_start(m) ==
    /\ pc[m] \in {"idle", "raised"}
    /\ LET a == matches[m].player_a
           b == matches[m].player_b
           ps1 == [players EXCEPT ![a] = Player_reset(@)]
       IN  players' = [ps1 EXCEPT ![b] = Player_reset(@)]
    /\ frame' = [frame EXCEPT ![m] = NewFrame]
    /\ calls' = [calls EXCEPT ![m] = @ + 1]
    /\ pc' = [pc EXCEPT ![m] = "running"]
    /\ err' = [err EXCEPT ![m] = "none"]
    /\ UNCHANGED <<tape, matches, returned, tvars, dvars>>

\* play()'s loop body with the raw decisions kept as a_prev and b_prev.
play_round_raw_history(m) ==
    /\ pc[m] = "running"
    /\ \E c \in _continue(matches[m], frame[m].round_index, tape) :
         /\ c.result
         /\ \E r \in round_body(matches[m], frame[m], players, c.rng, c.tape) :
              /\ players' = r.players
              /\ tape' = r.tape
              /\ matches' = [matches EXCEPT ![m].rng = r.rng]
              /\ IF payoff_raises(r.a_eff, r.b_eff)
                 THEN /\ pc' = [pc EXCEPT ![m] = "raised"]
                      /\ err' = [err EXCEPT ![m] = "Actions must be 'C' or 'D'"]
                      /\ UNCHANGED frame
                 ELSE LET pay == payoff(matches[m].payoff_matrix, r.a_eff, r.b_eff) IN
                      /\ frame' = [frame EXCEPT
                                     ![m].log = append(@, r.a_eff, r.b_eff, pay[1], pay[2]),
                                     ![m].asked = r.asked,
                                     ![m].a_prev = r.a_action,
                                     ![m].b_prev = r.b_action,
                                     ![m].round_index = @ + 1]
                      /\ UNCHANGED <<pc, err>>
    /\ UNCHANGED <<calls, returned, tvars, dvars>>

\* One iteration of play()'s loop whose _continue() is true: the two moves,
\* the noise, the payoff lookup (which may raise) and the log entry.
play_round(m) ==
    /\ pc[m] = "running"
    /\ \E c \in _continue(matches[m], frame[m].round_index, tape) :
         /\ c.result
         /\ \E r \in round_body(matches[m], frame[m], players, c.rng, c.tape) :
              /\ players' = r.players
              /\ tape' = r.tape
              /\ matches' = [matches EXCEPT ![m].rng = r.rng]
              /\ IF payoff_raises(r.a_eff, r.b_eff)
                 THEN /\ pc' = [pc EXCEPT ![m] = "raised"]
                      /\ err' = [err EXCEPT ![m] = "Actions must be 'C' or 'D'"]
                      /\ UNCHANGED frame
                 ELSE LET pay == payoff(matches[m].payoff_matrix, r.a_eff, r.b_eff) IN
                      /\ frame' = [frame EXCEPT
                                     ![m].log = append(@, r.a_eff, r.b_eff, pay[1], pay[2]),
                                     ![m].asked = r.asked,
                                     ![m].a_prev = r.a_eff,
                                     ![m].b_prev = r.b_eff,
                                     ![m].round_index = @ + 1]
                      /\ UNCHANGED <<pc, err>>
    /\ UNCHANGED <<calls, returned, tvars, dvars>>

\* The iteration whose _continue() is false: the loop ends, the outcome is
\* built and play() returns (outcome, log).
play_finish(m) ==
    /\ pc[m] = "running"
    /\ \E c \in _continue(matches[m], frame[m].round_index, tape) :
         /\ ~c.result
         /\ matches' = [matches EXCEPT ![m].rng = c.rng]
         /\ tape' = c.tape
    /\ returned' = [returned EXCEPT
                      ![m] = Append(@, [outcome |-> _build_outcome(frame[m].log),
                                        log |-> frame[m].log])]
    /\ pc' = [pc EXCEPT ![m] = "idle"]
    /\ UNCHANGED <<players, frame, calls, err, tvars, dvars>>

\* RoundRobinTournament_init that rejects negative repetitions only.
RoundRobinTournament_init_from_zero(roster, noise, n_rounds, repetitions, seed) ==
    /\ tpc = "absent"
    /\ IF repetitions < 0
       THEN /\ terr' = "repetitions must be >= 1"
            /\ UNCHANGED <<tour, tpc>>
       ELSE /\ tour' = RoundRobinTournament(roster, noise, n_rounds, repetitions, seed)
            /\ tpc' = "idle"
            /\ terr' = "none"
    /\ UNCHANGED <<players, tape, matches, pc, frame, calls, returned, err, tframe, results, dvars>>

\* RoundRobinTournament(roster, noise=..., n_rounds=..., repetitions=..., seed=...).
RoundRobinTournament_init(roster, noise, n_rounds, repetitions, seed) ==
    /\ tpc = "absent"
    /\ IF repetitions < 1
       THEN /\ terr' = "repetitions must be >= 1"
            /\ UNCHANGED <<tour, tpc>>
       ELSE /\ tour' = RoundRobinTournament(roster, noise, n_rounds, repetitions, seed)
            /\ tpc' = "idle"
            /\ terr' = "none"
    /\ UNCHANGED <<players, tape, matches, pc, frame, calls, returned, err, tframe, results, dvars>>

\* run() up to its loops.
run_start ==
    /\ tpc = "idle"
    /\ tpc' = "running"
    /\ tframe' = NewRun
    /\ UNCHANGED <<players, tape, matches, pc, frame, calls, returned, err, tour,
                   results, terr, dvars>>

\* The head of run()'s inner loop body: the IteratedMatch of the current pair
\* and repetition is constructed (slot 1) and its play() starts.
run_match ==
    /\ tpc = "running"
    /\ tframe.pair <= Len(combinations(tour.players))
    /\ LET pr == combinations(tour.players)[tframe.pair]
           e == init_error(Some(tour.n_rounds), None)
           ps1 == [players EXCEPT ![pr[1]] = Player_reset(@)]
       IN  /\ e = "none"
           /\ matches' = [matches EXCEPT
                            ![1] = IteratedMatch(pr[1], pr[2], tour.noise,
                                                 Some(tour.n_rounds), None,
                                                 match_seed(tour.seed, tframe.rep))]
           /\ players' = [ps1 EXCEPT ![pr[2]] = Player_reset(@)]
    /\ frame' = [frame EXCEPT ![1] = NewFrame]
    /\ calls' = [calls EXCEPT ![1] = 1]
    /\ returned' = [returned EXCEPT ![1] = <<>>]
    /\ pc' = [pc EXCEPT ![1] = "running"]
    /\ err' = [err EXCEPT ![1] = "none"]
    /\ tpc' = "playing"
    /\ UNCHANGED <<tape, tour, tframe, results, terr, dvars>>

\* The rest of the inner loop body once play() is over: the summary is
\* appended and the loops advance; a ValueError of play() ends run().
run_collect ==
    /\ tpc = "playing"
    /\ pc[1] \in {"idle", "raised"}
    /\ IF pc[1] = "raised"
       THEN /\ tpc' = "raised"
            /\ terr' = err[1]
            /\ UNCHANGED tframe
       ELSE /\ tpc' = "running"
            /\ tframe' =
                 [pair |-> IF tframe.rep + 1 < tour.repetitions
                           THEN tframe.pair ELSE tframe.pair + 1,
                  rep |-> IF tframe.rep + 1 < tour.repetitions
                          THEN tframe.rep + 1 ELSE 0,
                  matches |-> Append(tframe.matches,
                                MatchSummary(display_name(players[matches[1].player_a]),
                                             display_name(players[matches[1].player_b]),
                                             returned[1][1].outcome))]
            /\ UNCHANGED terr
    /\ UNCHANGED <<players, tape, matches, pc, frame, calls, returned, err, tour, results, dvars>>

\* Both loops are exhausted: run() returns TournamentResults(matches).
run_finish ==
    /\ tpc = "running"
    /\ tframe.pair > Len(combinations(tour.players))
    /\ results' = Append(results, tframe.matches)
    /\ tpc' = "idle"
    /\ UNCHANGED <<players, tape, matches, pc, frame, calls, returned, err, tour,
                   tframe, terr, dvars>>

\* ------------------------------------------------------- direct calls
\* The calls the tests make on the parts themselves, with the generator srng.
\* Every call is recorded in hist with the generator before and after it.
Call(op, args, result, after) ==
    [op |-> op, args |-> args, result |-> result, before |-> srng, after |-> after]

\* Noise(epsilon).apply(action, srng).
call_apply(epsilon, action) ==
    /\ \E r \in NoiseApply(epsilon, action, srng, tape) :
         /\ srng' = r.rng
         /\ tape' = r.tape
         /\ hist' = Append(hist, Call("apply", <<epsilon, action>>, r.action, r.rng))
    /\ UNCHANGED <<players, matches, pc, frame, calls, returned, err, tvars, sobj, serr>>

\* matrix.payoff(a, b).
call_payoff(mx, a, b) ==
    /\ hist' = Append(hist, Call("payoff", <<mx, a, b>>,
                                 IF payoff_raises(a, b) THEN <<"ValueError">>
                                 ELSE payoff(mx, a, b), srng))
    /\ UNCHANGED <<players, tape, matches, pc, frame, calls, returned, err, tvars,
                   sobj, srng, serr>>

\* The constructor of a strategy class: TitForTwoTats(), RandomStrategy(p), ...
call_init(kind, p) ==
    /\ sobj = None
    /\ LET e == strategy_init_error(kind, p) IN
       /\ serr' = e
       /\ sobj' = IF e = "none" THEN Some(Strategy(kind, p)) ELSE sobj
       /\ hist' = Append(hist, Call("init", <<kind, p>>,
                                    IF e = "none" THEN "object" ELSE "ValueError", srng))
    /\ UNCHANGED <<players, tape, matches, pc, frame, calls, returned, err, tvars, srng>>

\* strategy.reset().
call_reset ==
    /\ sobj # None
    /\ sobj' = Some(Strategy_reset(sobj[1]))
    /\ hist' = Append(hist, Call("reset", <<>>, "None", srng))
    /\ UNCHANGED <<players, tape, matches, pc, frame, calls, returned, err, tvars,
                   srng, serr>>

\* strategy.first_move(srng).
call_first_move ==
    /\ sobj # None
    /\ \E r \in first_move(sobj[1], srng, tape) :
         /\ sobj' = Some(r.strategy)
         /\ srng' = r.rng
         /\ tape' = r.tape
         /\ hist' = Append(hist, Call("first_move", <<>>, r.action, r.rng))
    /\ UNCHANGED <<players, matches, pc, frame, calls, returned, err, tvars, serr>>

\* strategy.next_move(my_last, opp_last, srng).
call_next_move(my_last, opp_last) ==
    /\ sobj # None
    /\ \E r \in next_move(sobj[1], my_last, opp_last, srng, tape) :
         /\ sobj' = Some(r.strategy)
         /\ srng' = r.rng
         /\ tape' = r.tape
         /\ hist' = Append(hist, Call("next_move", <<my_last, opp_last>>, r.action, r.rng))
    /\ UNCHANGED <<players, matches, pc, frame, calls, returned, err, tvars, serr>>

\* ------------------------------------------------------ initial states
\* The state before any match exists: the Player objects chosen in roster
\* (a function from some player ids to Players), the other ids unused.
UnusedPlayer == Player(Strategy("ALLC", 0), None, None)

InitObjects(roster) ==
    /\ players = [i \in PlayerIds |-> IF i \in DOMAIN roster THEN roster[i] ELSE UnusedPlayer]
    /\ tape = [s \in Streams |-> <<>>]
    /\ matches = [m \in MatchIds |-> NoMatch]
    /\ pc = [m \in MatchIds |-> "absent"]
    /\ frame = [m \in MatchIds |-> NewFrame]
    /\ calls = [m \in MatchIds |-> 0]
    /\ returned = [m \in MatchIds |-> <<>>]
    /\ err = [m \in MatchIds |-> "none"]
    /\ tour = NoTournament
    /\ tpc = "absent"
    /\ tframe = NewRun
    /\ results = <<>>
    /\ terr = "none"
    /\ sobj = None
    /\ srng = make_rng(Some(0))
    /\ hist = <<>>
    /\ serr = "none"

SeedValues == {None, Some(1)}

\* Players 1 and 2, each with one of the strategies S, seeded or not.
InitPlayers(S) ==
    \E roster \in [{1, 2} -> {Player(s, None, seed) : s \in S, seed \in SeedValues}] :
        InitObjects(roster)

\* ------------------------------- one match, played repeatedly (Spec)
ReplayStrategies == {Strategy("TFT", 0), Strategy("GRIM", 0), Strategy("RAND", 2)}

Init == InitPlayers(ReplayStrategies)

\* A match of players 1 and 2 with accepted arguments.
Construct ==
    \E noise \in {None, Some(2)}, n_rounds \in {None, Some(1), Some(2)},
       continuation_prob \in {None, Some(2)}, seed \in SeedValues :
        /\ init_error(n_rounds, continuation_prob) = "none"
        /\ IteratedMatch_init(1, 1, 2, noise, n_rounds, continuation_prob, seed)

Start == calls[1] < MaxPlays /\ play_start(1)

\* A play() is followed for at most MaxRounds rounds.
Round == frame[1].round_index < MaxRounds /\ play_round(1)

Finish == play_finish(1)

Next == Construct \/ Start \/ Round \/ Finish

Spec == Init /\ [][Next]_vars

\* ----------------------------------- one match, played once (SpecOnce)
NoiseValues == {None, Some(0), Some(2), Some(Unit)}
NRoundsValues == {None, Some(-1), Some(0), Some(1), Some(2)}
ContProbValues == {None, Some(-1), Some(0), Some(2), Some(Unit), Some(Unit + 1)}

BuiltIns ==
    {Strategy(k, 0) : k \in {"ALLC", "ALLD", "TFT", "TF2T", "GRIM", "PAVLOV"}}
    \cup {Strategy("RAND", 2), Strategy("GTFT", 2)}

InitOnce == InitPlayers(BuiltIns)

\* A match of players 1 and 2 with any arguments, rejected ones included.
ConstructAny ==
    \E noise \in NoiseValues, n_rounds \in NRoundsValues,
       continuation_prob \in ContProbValues, seed \in SeedValues :
        IteratedMatch_init(1, 1, 2, noise, n_rounds, continuation_prob, seed)

FirstPlay == calls[1] = 0 /\ play_start(1)

NextOnce == ConstructAny \/ FirstPlay \/ Round \/ Finish

SpecOnce == InitOnce /\ [][NextOnce]_vars

\* ------------------ one match with a faulty strategy (SpecFaulty)
FaultyStrategies == {Strategy("TFT", 0), Strategy("FAULTY", 0), Strategy("FAULTY", 1)}

InitFaulty == InitPlayers(FaultyStrategies)

NextFaulty == ConstructAny \/ FirstPlay \/ Round \/ Finish

SpecFaulty == InitFaulty /\ [][NextFaulty]_vars

\* ------------- two matches of one configuration (SpecPair)
PairStrategies == {Strategy("GRIM", 0), Strategy("RAND", 2)}

\* Every generator of this specification has an explicit seed.
PairSeeds == {Some(0), Some(1)}

\* Players 3 and 4 are constructed like players 1 and 2.
InitPair ==
    \E roster \in [{1, 2} -> {Player(s, None, seed) : s \in PairStrategies, seed \in PairSeeds}] :
        InitObjects([i \in 1..4 |-> roster[((i - 1) % 2) + 1]])

ConstructFirst ==
    \E noise \in {None, Some(2)}, n_rounds \in {None, Some(1), Some(2)},
       continuation_prob \in {None, Some(2)}, seed \in PairSeeds :
        /\ init_error(n_rounds, continuation_prob) = "none"
        /\ IteratedMatch_init(1, 1, 2, noise, n_rounds, continuation_prob, seed)

\* A second IteratedMatch with the arguments of the first: the same seed, and
\* the same two Player objects or two Players constructed like them.
ConstructSecond ==
    /\ pc[1] # "absent"
    /\ \E a \in {1, 3}, seed \in PairSeeds :
         /\ make_rng(seed).stream = matches[1].rng.stream
         /\ IteratedMatch_init(2, a, a + 1, matches[1].noise, matches[1].n_rounds,
                               matches[1].continuation_prob, seed)

\* One caller: a play() starts when no other is running.
PairPlay ==
    \E m \in MatchIds :
        /\ calls[m] = 0
        /\ \A o \in MatchIds : pc[o] # "running"
        /\ play_start(m)

PairRound == \E m \in MatchIds : frame[m].round_index < MaxRounds /\ play_round(m)

PairFinish == \E m \in MatchIds : play_finish(m)

NextPair == ConstructFirst \/ ConstructSecond \/ PairPlay \/ PairRound \/ PairFinish

SpecPair == InitPair /\ [][NextPair]_vars

\* --------------------------- one tournament, run once (SpecTour)
\* Unseeded Players with deterministic strategies and a seeded random one;
\* every draw is taken from a seeded generator.
TourPlayers ==
    {Player(Strategy(k, 0), None, None) : k \in {"ALLC", "ALLD", "GRIM"}}
    \cup {Player(Strategy("RAND", 2), None, Some(1))}

RosterSizes == 0..3

InitTour == \E roster \in [1..3 -> TourPlayers] : InitObjects(roster)

\* A tournament over the first n Players, any repetitions from -1 on.
\* (noise, n_rounds, seed) of the tournaments constructed.
TourArgs ==
    {<<None, 1, None>>, <<None, 2, None>>, <<None, 2, Some(0)>>, <<Some(2), 1, Some(0)>>}

RepetitionValues == (-1)..MaxReps

TourConstruct ==
    \E n \in RosterSizes, repetitions \in RepetitionValues, args \in TourArgs :
        RoundRobinTournament_init([i \in 1..n |-> i], args[1], args[2], repetitions,
                                  args[3])

FirstRun == results = <<>> /\ run_start

NextTour ==
    TourConstruct \/ FirstRun \/ run_match \/ Round \/ Finish \/ run_collect \/ run_finish

SpecTour == InitTour /\ [][NextTour]_vars

\* ------------------ one seeded tournament, run repeatedly (SpecRerun)
\* Explicitly seeded Players.
RerunPlayers ==
    {Player(s, None, Some(1)) : s \in {Strategy("GRIM", 0), Strategy("RAND", 2)}}

\* (noise, n_rounds) of the tournaments run repeatedly.
RerunArgs == {<<None, 2>>, <<Some(2), 1>>}

InitRerun == \E roster \in [1..3 -> RerunPlayers] : InitObjects(roster)

RerunConstruct ==
    \E n \in RosterSizes, args \in RerunArgs, repetitions \in 1..MaxReps :
        RoundRobinTournament_init([i \in 1..n |-> i], args[1], args[2], repetitions, Some(0))

Rerun == Len(results) < MaxRuns /\ run_start

NextRerun ==
    RerunConstruct \/ Rerun \/ run_match \/ Round \/ Finish \/ run_collect \/ run_finish

SpecRerun == InitRerun /\ [][NextRerun]_vars

\* --------------- one match with fixed termination (SpecFixed)
FixedStrategies == {Strategy("ALLC", 0), Strategy("ALLD", 0), Strategy("TFT", 0)}

\* A payoff matrix that violates T > R > P > S.
DegenerateMatrix == [temptation |-> 1, reward |-> 2, punishment |-> 2, sucker |-> 3]

InitFixed == InitPlayers(FixedStrategies)

FixedConstruct ==
    \E payoff_matrix \in {None, Some(DegenerateMatrix)}, noise \in {None, Some(0), Some(2)},
       n \in 0..MaxFixed, seed \in SeedValues :
        IteratedMatch_init_matrix(1, 1, 2, payoff_matrix, noise, Some(n), None, seed)

\* n_rounds bounds the rounds of these matches.
FixedRound == play_round(1)

NextFixed == FixedConstruct \/ FirstPlay \/ FixedRound \/ Finish

SpecFixed == InitFixed /\ [][NextFixed]_vars

\* ------------- Noise.apply called directly, and noise in a match (SpecNoise)
InitNoise == InitPlayers({Strategy("TFT", 0)})

\* epsilon of the Noise objects called directly: -0.25, 0.0, 0.5, 0.75, 1.0.
EpsilonValues == {-1, 0, 2, 3, Unit}

\* Direct calls are followed before a match is constructed.
NoiseCall ==
    /\ pc[1] = "absent"
    /\ Len(hist) < MaxCalls
    /\ \E epsilon \in EpsilonValues, action \in Actions : call_apply(epsilon, action)

\* A match with fixed termination follows at most one direct call.
NoiseConstruct ==
    /\ Len(hist) <= 1
    /\ \E noise \in NoiseValues, n \in 0..MaxRounds, seed \in SeedValues :
         IteratedMatch_init(1, 1, 2, noise, Some(n), None, seed)

NextNoise == NoiseCall \/ NoiseConstruct \/ FirstPlay \/ FixedRound \/ Finish

SpecNoise == InitNoise /\ [][NextNoise]_vars

\* ---------------------- PayoffMatrix.payoff called directly (SpecPayoff)
Matrices ==
    {PayoffMatrix, DegenerateMatrix,
     [temptation |-> 1, reward |-> 1, punishment |-> 1, sucker |-> 1],
     [temptation |-> 0, reward |-> 1, punishment |-> 2, sucker |-> 3]}

InitPayoff == InitObjects(<<>>)

PayoffCall ==
    /\ Len(hist) < MaxCalls
    /\ \E mx \in Matrices, a \in Actions \cup {"X"}, b \in Actions \cup {"X"} :
         call_payoff(mx, a, b)

NextPayoff == PayoffCall

SpecPayoff == InitPayoff /\ [][NextPayoff]_vars

\* ------------------------ one strategy object called directly (SpecStrategy)
\* p of RandomStrategy and forgive_p of GenerousTitForTat: -0.25 to 1.25.
ProbValues == {-1, 0, 2, Unit, Unit + 1}

StrategyClasses ==
    {<<"TF2T", 0>>, <<"GRIM", 0>>, <<"PAVLOV", 0>>} \cup ({"RAND", "GTFT"} \X ProbValues)

\* (my_last, opp_last) of the next_move calls.
NextMoveArgs ==
    {<<"None", "None">>, <<"C", "C">>, <<"C", "D">>, <<"D", "C">>, <<"D", "D">>}

InitStrategy == InitObjects(<<>>)

StrategyConstruct ==
    Len(hist) < MaxMoves /\ \E c \in StrategyClasses : call_init(c[1], c[2])

StrategyReset == Len(hist) < MaxMoves /\ call_reset

StrategyFirstMove == Len(hist) < MaxMoves /\ call_first_move

StrategyNextMove ==
    Len(hist) < MaxMoves /\ \E a \in NextMoveArgs : call_next_move(a[1], a[2])

NextStrategy == StrategyConstruct \/ StrategyReset \/ StrategyFirstMove \/ StrategyNextMove

SpecStrategy == InitStrategy /\ [][NextStrategy]_vars

\* ------------------------------------------------------------------
\* Repeated matches of two Players that are seeded with 0 or 1 or unseeded.
ResetStrategies == {Strategy("GRIM", 0), Strategy("RAND", 2)}

ResetSeeds == {None, Some(0), Some(1)}

InitReset ==
    \E roster \in [{1, 2} -> {Player(s, None, seed) : s \in ResetStrategies,
                                                        seed \in ResetSeeds}] :
        InitObjects(roster)

ResetConstruct ==
    \E n \in 1..MaxRounds : IteratedMatch_init(1, 1, 2, None, Some(n), None, None)

NextReset == ResetConstruct \/ Start \/ FixedRound \/ Finish

SpecReset == InitReset /\ [][NextReset]_vars

\* ------------------------------------------------------------------
\* Tournaments without noise over any roster of up to three entries drawn from
\* four Players, an entry repeated or not.
RosterPlayers ==
    <<Player(Strategy("GRIM", 0), None, None), Player(Strategy("ALLD", 0), None, None),
      Player(Strategy("ALLC", 0), None, None), Player(Strategy("TF2T", 0), None, None)>>

InitRoster == InitObjects(RosterPlayers)

Rosters == UNION {[1..n -> DOMAIN RosterPlayers] : n \in RosterSizes}

RosterConstruct ==
    \E roster \in Rosters, n_rounds \in 1..MaxRounds, repetitions \in 1..MaxReps :
        RoundRobinTournament_init(roster, None, n_rounds, repetitions, None)

NextRoster ==
    RosterConstruct \/ FirstRun \/ run_match \/ Round \/ Finish \/ run_collect \/ run_finish

SpecRoster == InitRoster /\ [][NextRoster]_vars

\* ------------------------------------------------------------------
\* One play() of a match with an unseeded generator, followed to its end.
\* The loop of play() keeps stepping (weak fairness of Round), and a
\* continuation draw that can stop the match, being possible again and again,
\* eventually does (strong fairness of Finish): the fair draw.
LiveStrategies == {Strategy("TFT", 0), Strategy("RAND", 2)}

InitLive == InitPlayers(LiveStrategies)

LiveConstruct ==
    \E noise \in {None, Some(2)}, n_rounds \in {None} \cup {Some(n) : n \in 0..MaxRounds},
       continuation_prob \in {None, Some(0), Some(2)} :
        /\ init_error(n_rounds, continuation_prob) = "none"
        /\ IteratedMatch_init(1, 1, 2, noise, n_rounds, continuation_prob, None)

NextLive == LiveConstruct \/ FirstPlay \/ Round \/ Finish

SpecLive == InitLive /\ [][NextLive]_vars /\ WF_vars(Round) /\ SF_vars(Finish)

\* ------------------------------------------------------------------
\* Two matches on disjoint, seeded Players, each with its own seeded
\* generator, played by two callers whose rounds interleave in any order.
InterleaveStrategies == {Strategy("GRIM", 0), Strategy("RAND", 2)}

InitInterleave ==
    \E roster \in [1..4 -> {Player(s, None, Some(1)) : s \in InterleaveStrategies}] :
        InitObjects(roster)

\* (noise, n_rounds, seed) of the two matches: two rounds each.
InterleaveArgs == {None, Some(2)} \X {2} \X {Some(0), Some(1)}

\* The second match on Players that the first match also uses.
InterleaveSecond_shared_players ==
    /\ pc[1] # "absent"
    /\ \E args \in InterleaveArgs :
         IteratedMatch_init(2, 1, 2, args[1], Some(args[2]), None, args[3])

\* The second match, on Players 3 and 4.
InterleaveSecond ==
    /\ pc[1] # "absent"
    /\ \E args \in InterleaveArgs :
         IteratedMatch_init(2, 3, 4, args[1], Some(args[2]), None, args[3])

\* The first match, on Players 1 and 2.
InterleaveFirst ==
    \E args \in InterleaveArgs :
        IteratedMatch_init(1, 1, 2, args[1], Some(args[2]), None, args[3])

\* Either caller enters play(), whatever the other is doing.
InterleavePlay ==
    \E m \in MatchIds : calls[m] = 0 /\ pc[3 - m] # "absent" /\ play_start(m)

NextInterleave ==
    InterleaveFirst \/ InterleaveSecond \/ InterleavePlay \/ PairRound \/ PairFinish

SpecInterleave == InitInterleave /\ [][NextInterleave]_vars

\* ---------------------------------------------------------------- claims
Constructed(m) == pc[m] # "absent"

Seeded(m) ==
    /\ players[matches[m].player_a].seed # None
    /\ players[matches[m].player_b].seed # None

\* C1: a match with continuation_prob = 0.0 whose play() has returned logged
\* exactly one round, whatever n_rounds was given with it.
C1_ZeroContinuationOneRound ==
    \A m \in MatchIds :
        (Constructed(m) /\ matches[m].continuation_prob = Some(0))
            => \A k \in 1..Len(returned[m]) : rounds(returned[m][k].log) = 1

\* C2: with both players explicitly seeded, the second play() of a match
\* returns the same log as the first.
C2_ReplayIdentical ==
    \A m \in MatchIds :
        (Seeded(m) /\ Len(returned[m]) >= 2)
            => returned[m][2].log = returned[m][1].log

\* C7: noise never advances the match's own generator: with fixed termination
\* (no continuation draws) the match generator stays where construction put it.
C7_NoiseLeavesMatchStream ==
    \A m \in MatchIds :
        (Constructed(m) /\ matches[m].continuation_prob = None)
            => matches[m].rng.pos = 0

\* The rounds a faulty strategy plays before it returns a value outside
\* Actions; no bound for the built-in strategies.
ValidMoves(p, n) == p.strategy.kind = "FAULTY" => n <= p.strategy.p

\* C8: a value outside {C, D} aborts the match in its round and is never
\* logged as a valid action: a match never logs more rounds than the valid
\* moves of either side, under any noise setting.
C8_InvalidActionFatal ==
    \A m \in MatchIds :
        Constructed(m)
            => /\ ValidMoves(players[matches[m].player_a], rounds(frame[m].log))
               /\ ValidMoves(players[matches[m].player_b], rounds(frame[m].log))

\* C9: every constructed match has exactly one termination policy: n_rounds
\* or continuation_prob, never both.
C9_OneTerminationPolicy ==
    \A m \in MatchIds :
        Constructed(m)
            => (matches[m].n_rounds = None) # (matches[m].continuation_prob = None)

\* Arguments IteratedMatch must reject: continuation_prob outside [0,1), or
\* neither n_rounds nor continuation_prob.
Rejected(n_rounds, continuation_prob) ==
    \/ continuation_prob # None /\ (continuation_prob[1] < 0 \/ continuation_prob[1] >= Unit)
    \/ n_rounds = None /\ continuation_prob = None

\* C10: no match object ever comes from rejected arguments, and a
\* construction that raises creates no object and leaves every Player (and
\* everything else) as it was.
C10_InitFailsFast ==
    [][\A m \in MatchIds :
         /\ pc'[m] # "absent"
              => ~Rejected(matches'[m].n_rounds, matches'[m].continuation_prob)
         /\ (pc[m] = "absent" /\ err'[m] # err[m] /\ err'[m] # "none")
              => /\ err'[m] \in {"continuation_prob must be in [0, 1)",
                                 "either n_rounds or continuation_prob must be provided"}
                 /\ UNCHANGED <<players, tape, matches, pc, frame, calls, returned, tvars,
                                dvars>>]_vars

C10_Witness ==
    /\ pc[1] = "absent"
    /\ err[1] = "continuation_prob must be in [0, 1)"

\* Matches m and o were constructed from equal arguments: equal strategies and
\* seeds of the players on each side, equal payoff matrix, noise, termination
\* settings and match seed.
SameArguments(m, o) ==
    /\ Constructed(m) /\ Constructed(o)
    /\ \A side \in {"player_a", "player_b"} :
         /\ players[matches[m][side]].strategy.kind = players[matches[o][side]].strategy.kind
         /\ players[matches[m][side]].strategy.p = players[matches[o][side]].strategy.p
         /\ players[matches[m][side]].seed = players[matches[o][side]].seed
    /\ matches[m].payoff_matrix = matches[o].payoff_matrix
    /\ matches[m].noise = matches[o].noise
    /\ matches[m].n_rounds = matches[o].n_rounds
    /\ matches[m].continuation_prob = matches[o].continuation_prob
    /\ matches[m].rng.stream = matches[o].rng.stream

\* C3: two separately constructed matches with equal arguments and explicit
\* player and match seeds return equal logs and outcomes from their first play().
C3_Deterministic ==
    \A m, o \in MatchIds :
        (/\ SameArguments(m, o)
         /\ Seeded(m) /\ Seeded(o)
         /\ matches[m].rng.stream # None
         /\ returned[m] # <<>> /\ returned[o] # <<>>)
            => returned[m][1] = returned[o][1]

\* Both matches have returned, on Player objects of their own, after two
\* rounds in which strategy and noise draws were taken.
C3_Witness ==
    /\ SameArguments(1, 2) /\ Seeded(1) /\ Seeded(2)
    /\ matches[1].rng.stream # None
    /\ matches[2].player_a = 3
    /\ matches[1].noise = Some(2)
    /\ players[1].strategy.kind = "RAND"
    /\ returned[1] # <<>> /\ returned[2] # <<>>
    /\ rounds(returned[2][1].log) = 2

RosterSeeded == \A i \in 1..Len(tour.players) : players[tour.players[i]].seed # None

\* C4: run() twice on a tournament with a seed and explicitly seeded Players
\* returns the same sequence of summaries both times, with or without noise.
C4_RerunIdentical ==
    (tpc # "absent" /\ tour.seed # None /\ RosterSeeded)
        => \A k \in 1..Len(results) : results[k] = results[1]

\* Two runs of three Players under noise have returned.
C4_Witness ==
    /\ tpc = "idle" /\ tour.seed # None /\ RosterSeeded
    /\ tour.noise = Some(2)
    /\ Len(tour.players) = 3
    /\ Len(results) = 2
    /\ Len(results[2]) >= 3

\* C5: run() on N players with R repetitions returns C(N,2) * R summaries.
C5_SummaryCount ==
    \A k \in 1..Len(results) :
        Len(results[k])
            = ((Len(tour.players) * (Len(tour.players) - 1)) \div 2) * tour.repetitions

\* A run of three Players with two repetitions has returned its six summaries.
C5_Witness ==
    /\ Len(results) = 1
    /\ Len(tour.players) = 3
    /\ tour.repetitions = 2
    /\ Len(results[1]) = 6

\* C6: after run(), the keys of leaderboard() are exactly the display names of
\* the roster's Players, for every roster size.
C6_LeaderboardKeys ==
    \A k \in 1..Len(results) :
        DOMAIN leaderboard(results[k])
            = {display_name(players[tour.players[i]]) : i \in 1..Len(tour.players)}

\* A match with fixed termination: n_rounds = n >= 0 and no continuation_prob.
FixedTermination(m) ==
    /\ Constructed(m)
    /\ matches[m].continuation_prob = None
    /\ matches[m].n_rounds # None
    /\ matches[m].n_rounds[1] >= 0

\* C11: with fixed termination n_rounds = n >= 0, every returned log has
\* exactly n rows, indexed 0..n-1 in order, and while play() runs the round
\* index is the number of rounds logged and never exceeds n; for every
\* built-in strategy and every noise setting.
C11_FixedRounds ==
    \A m \in MatchIds :
        FixedTermination(m)
            => /\ frame[m].round_index = rounds(frame[m].log)
               /\ frame[m].round_index <= matches[m].n_rounds[1]
               /\ \A k \in 1..Len(returned[m]) :
                    LET rows == as_rows(returned[m][k].log) IN
                    /\ Len(rows) = matches[m].n_rounds[1]
                    /\ \A i \in 1..Len(rows) : rows[i][1] = i - 1

\* A play() of two fixed rounds under noise, with a random strategy, has returned.
C11_Witness ==
    /\ FixedTermination(1)
    /\ matches[1].n_rounds = Some(2)
    /\ matches[1].noise = Some(2)
    /\ players[1].strategy.kind = "RAND"
    /\ returned[1] # <<>>
    /\ rounds(returned[1][1].log) = 2

\* No noise: no Noise object, or one whose epsilon is not positive.
NoiseFree(m) == matches[m].noise = None \/ matches[m].noise[1] <= 0

\* AllCooperate on side A against AllDefect on side B.
CooperatorMeetsDefector(m) ==
    /\ players[matches[m].player_a].strategy.kind = "ALLC"
    /\ players[matches[m].player_b].strategy.kind = "ALLD"

\* C12 as stated: a noise-free match of AllCooperate against AllDefect over n
\* fixed rounds returns totals n * sucker and n * temptation and cooperation
\* rates 1.0 for A and 0.0 for B, for every n.
C12_CooperatorVsDefector ==
    \A m \in MatchIds :
        (FixedTermination(m) /\ NoiseFree(m) /\ CooperatorMeetsDefector(m))
            => \A k \in 1..Len(returned[m]) :
                 LET outcome == returned[m][k].outcome
                     n == matches[m].n_rounds[1]
                 IN  /\ outcome.total_payoff_a = n * matches[m].payoff_matrix.sucker
                     /\ outcome.total_payoff_b = n * matches[m].payoff_matrix.temptation
                     /\ frac_eq(outcome.cooperation_rate_a, <<1, 1>>)
                     /\ frac_eq(outcome.cooperation_rate_b, <<0, 1>>)

\* C12 amended: the totals are n * sucker and n * temptation for every n >= 0;
\* the cooperation rates are 1.0 for A and 0.0 for B when n >= 1, and 0.0 for
\* both sides when n = 0.
C12_CooperatorVsDefectorRounds ==
    \A m \in MatchIds :
        (FixedTermination(m) /\ NoiseFree(m) /\ CooperatorMeetsDefector(m))
            => \A k \in 1..Len(returned[m]) :
                 LET outcome == returned[m][k].outcome
                     n == matches[m].n_rounds[1]
                 IN  /\ outcome.total_payoff_a = n * matches[m].payoff_matrix.sucker
                     /\ outcome.total_payoff_b = n * matches[m].payoff_matrix.temptation
                     /\ frac_eq(outcome.cooperation_rate_a, IF n >= 1 THEN <<1, 1>> ELSE <<0, 1>>)
                     /\ frac_eq(outcome.cooperation_rate_b, <<0, 1>>)

\* Three noise-free rounds under the default matrix have returned 0 and 15.
C12_Witness ==
    /\ FixedTermination(1) /\ NoiseFree(1) /\ CooperatorMeetsDefector(1)
    /\ matches[1].n_rounds = Some(3)
    /\ matches[1].payoff_matrix = PayoffMatrix
    /\ returned[1] # <<>>
    /\ returned[1][1].outcome.total_payoff_a = 0
    /\ returned[1][1].outcome.total_payoff_b = 15

\* C13: Noise.apply with epsilon <= 0 returns its input and leaves the
\* generator where it was, and a match with fixed termination and no noise (or
\* epsilon = 0) never advances its own generator.
C13_ZeroNoiseNoDraw ==
    /\ \A i \in 1..Len(hist) :
         (hist[i].op = "apply" /\ hist[i].args[1] <= 0)
             => /\ hist[i].result = hist[i].args[2]
                /\ hist[i].after = hist[i].before
    /\ \A m \in MatchIds :
         (FixedTermination(m) /\ NoiseFree(m)) => matches[m].rng.pos = 0

\* Noise(0.0).apply was called, and a two-round match under Noise(0.0) returned.
C13_Witness ==
    /\ Len(hist) = 1
    /\ hist[1].op = "apply" /\ hist[1].args = <<0, "D">>
    /\ matches[1].noise = Some(0)
    /\ matches[1].n_rounds = Some(2)
    /\ returned[1] # <<>>
    /\ rounds(returned[1][1].log) = 2

\* The value a recorded call drew from the seeded stream of its generator.
Drawn(c) == tape[c.before.stream[1]][c.before.pos + 1]

\* C14: Noise.apply with epsilon > 0 takes exactly one draw from the stream it
\* is given and returns the other action exactly when the draw is <= epsilon,
\* the input otherwise; with epsilon = 1 it returns the other action always.
C14_PositiveNoiseOneDraw ==
    \A i \in 1..Len(hist) :
        (hist[i].op = "apply" /\ hist[i].args[1] > 0)
            => LET epsilon == hist[i].args[1]
                   action == hist[i].args[2]
                   other == IF action = "C" THEN "D" ELSE "C"
               IN  /\ hist[i].after.stream = hist[i].before.stream
                   /\ hist[i].after.pos = hist[i].before.pos + 1
                   /\ hist[i].result = other <=> Drawn(hist[i]) <= epsilon
                   /\ hist[i].result = action <=> Drawn(hist[i]) > epsilon
                   /\ epsilon = Unit => hist[i].result = other

\* Noise(0.75).apply drew exactly 0.75 and flipped, then Noise(1.0).apply flipped.
C14_Witness ==
    /\ Len(hist) = 2
    /\ hist[1].op = "apply" /\ hist[1].args = <<3, "C">>
    /\ Drawn(hist[1]) = 3 /\ hist[1].result = "D"
    /\ hist[2].op = "apply" /\ hist[2].args = <<Unit, "D">>
    /\ hist[2].result = "C"

\* The payoff table: CC -> (R, R), CD -> (S, T), DC -> (T, S), DD -> (P, P).
PayoffTable(mx) ==
    [pr \in Actions \X Actions |->
        CASE pr = <<"C", "C">> -> <<mx.reward, mx.reward>>
          [] pr = <<"C", "D">> -> <<mx.sucker, mx.temptation>>
          [] pr = <<"D", "C">> -> <<mx.temptation, mx.sucker>>
          [] pr = <<"D", "D">> -> <<mx.punishment, mx.punishment>>]

ValidCall(c) == c.op = "payoff" /\ c.args[2] \in Actions /\ c.args[3] \in Actions

\* C15: for every matrix, degenerate ones included, payoff(a, b) on valid
\* actions is the table's entry, and payoff(b, a) on the same matrix is
\* payoff(a, b) with its components swapped.
C15_PayoffSwap ==
    \A i \in 1..Len(hist) :
        ValidCall(hist[i])
            => /\ hist[i].result = PayoffTable(hist[i].args[1])[<<hist[i].args[2], hist[i].args[3]>>]
               /\ \A j \in 1..Len(hist) :
                    (/\ ValidCall(hist[j])
                     /\ hist[j].args = <<hist[i].args[1], hist[i].args[3], hist[i].args[2]>>)
                        => hist[j].result = <<hist[i].result[2], hist[i].result[1]>>

\* payoff("C", "D") and payoff("D", "C") were called on the degenerate matrix.
C15_Witness ==
    /\ Len(hist) = 2
    /\ hist[1].args = <<DegenerateMatrix, "C", "D">>
    /\ hist[2].args = <<DegenerateMatrix, "D", "C">>
    /\ hist[1].result = <<3, 1>>
    /\ hist[2].result = <<1, 3>>

\* The direct calls were made on an object of class kind.
Called(kind) == sobj # None /\ sobj[1].kind = kind

\* Recorded call i is next_move with an opponent Defect.
SawDefect(i) == hist[i].op = "next_move" /\ hist[i].args[2] = "D"

\* C16: TitForTwoTats returns Defect from next_move exactly when this call and
\* the call right before it were both next_move calls with an opponent
\* Defect; its first move is Cooperate; a non-defection leaves the streak at 0.
C16_TwoConsecutiveDefections ==
    Called("TF2T")
        => /\ \A i \in 1..Len(hist) :
                /\ hist[i].op = "first_move" => hist[i].result = "C"
                /\ hist[i].op = "next_move"
                     => (hist[i].result = "D" <=> (i > 1 /\ SawDefect(i) /\ SawDefect(i - 1)))
                /\ hist[i].op \in {"first_move", "next_move"}
                     => hist[i].result \in Actions
           /\ (hist[Len(hist)].op = "next_move" /\ ~SawDefect(Len(hist)))
                => sobj[1]._defection_streak = 0

\* Two opponent defections in a row were answered C, then D, and the
\* cooperation that followed was answered C.
C16_Witness ==
    /\ Called("TF2T")
    /\ Len(hist) = 4
    /\ SawDefect(2) /\ hist[2].result = "C"
    /\ SawDefect(3) /\ hist[3].result = "D"
    /\ hist[4].op = "next_move" /\ hist[4].args[2] = "C" /\ hist[4].result = "C"

\* An opponent Defect was seen in a next_move call after every call of the
\* operations in ops that precedes call j (call j itself included).
DefectSince(ops, j) ==
    \E i \in 1..j :
        /\ SawDefect(i)
        /\ \A k \in (i + 1)..j : hist[k].op \notin ops

\* C17 as stated: GrimTrigger's next_move returns Defect exactly when an
\* opponent Defect has been observed by next_move since the last reset().
C17_GrimUntilReset ==
    Called("GRIM")
        => \A j \in 1..Len(hist) :
             hist[j].op = "next_move"
                 => (hist[j].result = "D" <=> DefectSince({"reset"}, j))

\* C17 amended: GrimTrigger's next_move returns Defect exactly when an opponent
\* Defect has been observed by next_move since the last reset() or
\* first_move(); first_move returns Cooperate.
C17_GrimUntilRestart ==
    Called("GRIM")
        => \A j \in 1..Len(hist) :
             /\ hist[j].op = "next_move"
                  => (hist[j].result = "D" <=> DefectSince({"reset", "first_move"}, j))
             /\ hist[j].op = "first_move" => hist[j].result = "C"

\* An opponent Defect, then two cooperations, each answered with Defect.
C17_Witness ==
    /\ Called("GRIM")
    /\ Len(hist) = 4
    /\ SawDefect(2) /\ hist[2].result = "D"
    /\ hist[3].op = "next_move" /\ hist[3].args[2] = "C" /\ hist[3].result = "D"
    /\ hist[4].op = "next_move" /\ hist[4].args[2] = "C" /\ hist[4].result = "D"

\* Recorded call i is a decision: first_move or next_move.
Decision(i) == hist[i].op \in {"first_move", "next_move"}

\* C18: RandomStrategy(1.0) returns Cooperate and RandomStrategy(0.0) returns
\* Defect on every decision, whatever value is drawn, and every decision of a
\* RandomStrategy takes exactly one draw.
C18_RandomBounds ==
    Called("RAND")
        => \A i \in 1..Len(hist) :
             Decision(i)
                 => /\ sobj[1].p = Unit => hist[i].result = "C"
                    /\ sobj[1].p = 0 => hist[i].result = "D"
                    /\ hist[i].after.stream = hist[i].before.stream
                    /\ hist[i].after.pos = hist[i].before.pos + 1

\* Recorded call i is a constructor call with a probability outside [0, 1].
OutsideUnit(i) ==
    /\ hist[i].op = "init"
    /\ hist[i].args[1] \in {"RAND", "GTFT"}
    /\ (hist[i].args[2] < 0 \/ hist[i].args[2] > Unit)

\* C19: RandomStrategy(p) and GenerousTitForTat(forgive_p) raise exactly when
\* the probability is outside [0, 1]; a raising constructor leaves no object.
C19_ProbabilityValidated ==
    /\ \A i \in 1..Len(hist) :
         hist[i].op = "init" => (hist[i].result = "ValueError" <=> OutsideUnit(i))
    /\ (hist # <<>> /\ hist[Len(hist)].op = "init" /\ OutsideUnit(Len(hist)))
         => /\ sobj = None
            /\ serr \in {"p must be between 0 and 1", "forgive_p must be between 0 and 1"}
    /\ (sobj # None /\ sobj[1].kind \in {"RAND", "GTFT"})
         => (0 <= sobj[1].p /\ sobj[1].p <= Unit)

\* RandomStrategy(1.25) raised, then GenerousTitForTat(1.0) was constructed
\* and decided.
C19_Witness ==
    /\ Len(hist) >= 3
    /\ hist[1].args = <<"RAND", Unit + 1>> /\ hist[1].result = "ValueError"
    /\ hist[2].args = <<"GTFT", Unit>> /\ hist[2].result = "object"
    /\ Called("GTFT")
    /\ hist[3].op = "next_move"

\* C20: RoundRobinTournament(...) with repetitions < 1 raises, creates no
\* tournament, plays no match and resets no Player; with repetitions >= 1 it
\* creates the tournament with that many repetitions.
C20_RepetitionsValidated ==
    [][/\ tpc' # "absent" => tour'.repetitions >= 1
       /\ \A n \in RosterSizes, repetitions \in RepetitionValues, args \in TourArgs :
            RoundRobinTournament_init([i \in 1..n |-> i], args[1], args[2], repetitions,
                                      args[3])
                => IF repetitions < 1
                   THEN /\ terr' = "repetitions must be >= 1"
                        /\ tpc' = "absent"
                        /\ UNCHANGED <<players, tape, matches, pc, frame, calls, returned,
                                       err, tour, tframe, results, dvars>>
                   ELSE /\ terr' = "none"
                        /\ tpc' = "idle"
                        /\ tour'.repetitions = repetitions]_vars

\* A construction with repetitions < 1 has raised and left no tournament.
C20_Witness ==
    /\ tpc = "absent"
    /\ terr = "repetitions must be >= 1"
    /\ \A m \in MatchIds : pc[m] = "absent" /\ calls[m] = 0

\* The two Players of summary j of a run: run() appends the summaries pair by
\* pair, tour.repetitions for each pair.
PairOf(j) == combinations(tour.players)[((j - 1) \div tour.repetitions) + 1]

\* The sum of Player id's own mean payoffs over the first j summaries: side
\* A's mean where it was side A, side B's where it was side B.
RECURSIVE OwnScore(_, _, _)
OwnScore(summaries, id, j) ==
    IF j = 0 THEN <<0, 1>>
    ELSE LET before == OwnScore(summaries, id, j - 1)
             asA == IF PairOf(j)[1] = id
                    THEN frac_add(before, summaries[j].outcome.mean_payoff_a) ELSE before
         IN  IF PairOf(j)[2] = id
             THEN frac_add(asA, summaries[j].outcome.mean_payoff_b) ELSE asA

\* C21: the leaderboard value under a Player's display name is the sum of that
\* Player's own mean payoffs over the matches it took part in, for any roster,
\* shared display names included.
C21_LeaderboardOwnSum ==
    \A k \in 1..Len(results) :
        \A i \in 1..Len(tour.players) :
            LET name == display_name(players[tour.players[i]])
                board == leaderboard(results[k])
            IN  name \in DOMAIN board
                    => frac_eq(board[name], OwnScore(results[k], tour.players[i], Len(results[k])))

\* C22: a play() that returns a zero-round log returns total payoffs 0, mean
\* payoffs 0 over the divisor 1 and cooperation rates 0.0, for both sides.
C22_ZeroRoundOutcome ==
    \A m \in MatchIds :
        \A k \in 1..Len(returned[m]) :
            rounds(returned[m][k].log) = 0
                => LET outcome == returned[m][k].outcome IN
                   /\ outcome.total_payoff_a = 0 /\ outcome.total_payoff_b = 0
                   /\ outcome.mean_payoff_a = <<0, 1>> /\ outcome.mean_payoff_b = <<0, 1>>
                   /\ outcome.cooperation_rate_a[2] # 0 /\ outcome.cooperation_rate_b[2] # 0
                   /\ frac_eq(outcome.cooperation_rate_a, <<0, 1>>)
                   /\ frac_eq(outcome.cooperation_rate_b, <<0, 1>>)

\* A match constructed with a negative n_rounds has returned an empty log.
C22_Witness ==
    /\ Constructed(1)
    /\ matches[1].n_rounds = Some(-1)
    /\ returned[1] # <<>>
    /\ rounds(returned[1][1].log) = 0


\* C23: in round 0 both sides are asked through first_move; in every later
\* round side A's next_move receives the pair (A's action, B's action) that the
\* log records for the round before, the actions after noise, and side B's
\* receives the same pair swapped.
C23_EffectiveHistory ==
    \A m \in MatchIds :
        LET n == frame[m].round_index
            log == frame[m].log
        IN  /\ n = 1 => frame[m].asked = <<<<"first_move">>, <<"first_move">>>>
            /\ n > 1 => /\ frame[m].asked[1]
                             = <<"next_move", log.actions_a[n - 1], log.actions_b[n - 1]>>
                        /\ frame[m].asked[2]
                             = <<"next_move", log.actions_b[n - 1], log.actions_a[n - 1]>>

\* A cooperating first move of side A was flipped by noise, and both sides were
\* then asked with the flipped action.
C23_Witness ==
    /\ Constructed(1)
    /\ matches[1].noise # None
    /\ players[matches[1].player_a].strategy.kind = "TFT"
    /\ frame[1].round_index = 2
    /\ frame[1].log.actions_a[1] = "D"
    /\ frame[1].log.actions_b[1] = "C"
    /\ frame[1].asked = <<<<"next_move", "D", "C">>, <<"next_move", "C", "D">>>>

\* The log is well formed under the matrix mx: four lists of one length, valid
\* actions, and each payoff pair the matrix's payoff for the recorded actions.
WellFormed(log, mx) ==
    /\ Len(log.actions_b) = Len(log.actions_a)
    /\ Len(log.payoff_a) = Len(log.actions_a)
    /\ Len(log.payoff_b) = Len(log.actions_a)
    /\ \A i \in 1..Len(log.actions_a) :
          /\ log.actions_a[i] \in Actions
          /\ log.actions_b[i] \in Actions
          /\ <<log.payoff_a[i], log.payoff_b[i]>>
                = payoff(mx, log.actions_a[i], log.actions_b[i])

\* The log new is the log old with exactly one record appended.
OneMore(old, new) ==
    /\ rounds(new) = rounds(old) + 1
    /\ \A f \in DOMAIN old : SubSeq(new[f], 1, Len(old[f])) = old[f]

\* C24: every record of a match's log, during play() and in what play()
\* returns, holds two valid actions and the matrix's payoffs for them, the four
\* lists have one length, and each executed round appends exactly one record
\* and leaves the earlier records as they were.
C24_LogRecords ==
    /\ [](\A m \in MatchIds :
            Constructed(m)
                => /\ WellFormed(frame[m].log, matches[m].payoff_matrix)
                   /\ \A k \in 1..Len(returned[m]) :
                         WellFormed(returned[m][k].log, matches[m].payoff_matrix))
    /\ [][\A m \in MatchIds :
             /\ frame'[m].round_index = frame[m].round_index + 1
                    => OneMore(frame[m].log, frame'[m].log)
             /\ frame'[m].log # frame[m].log
                    => \/ frame'[m].round_index = frame[m].round_index + 1
                       \/ frame'[m] = NewFrame]_vars

\* A returned log of three rounds under the degenerate matrix in which noise
\* flipped an action.
C24_Witness ==
    /\ Constructed(1)
    /\ matches[1].payoff_matrix = DegenerateMatrix
    /\ matches[1].noise = Some(2)
    /\ returned[1] # <<>>
    /\ rounds(returned[1][1].log) = 3
    /\ players[matches[1].player_a].strategy.kind = "ALLC"
    /\ returned[1][1].log.actions_a[2] = "D"

\* The sum of the first j entries of q.
RECURSIVE Upto(_, _)
Upto(q, j) == IF j = 0 THEN 0 ELSE Upto(q, j - 1) + q[j]

\* The rounds of the action list q in which the action was "C".
Cooperations(q) == Cardinality({i \in DOMAIN q : q[i] = "C"})

\* C25: for every play() that returned after at least one round, each total is
\* the sum of that side's logged payoffs, each mean is the total divided by the
\* number of rounds, and each cooperation rate is the number of rounds that
\* side's logged action was C divided by the number of rounds.
C25_OutcomeFromLog ==
    \A m \in MatchIds : \A k \in 1..Len(returned[m]) :
        LET log == returned[m][k].log
            outcome == returned[m][k].outcome
            n == rounds(log)
        IN  n >= 1
                => /\ outcome.total_payoff_a = Upto(log.payoff_a, n)
                   /\ outcome.total_payoff_b = Upto(log.payoff_b, n)
                   /\ outcome.mean_payoff_a[2] # 0
                   /\ outcome.mean_payoff_b[2] # 0
                   /\ frac_eq(outcome.mean_payoff_a, <<outcome.total_payoff_a, n>>)
                   /\ frac_eq(outcome.mean_payoff_b, <<outcome.total_payoff_b, n>>)
                   /\ outcome.cooperation_rate_a[2] # 0
                   /\ outcome.cooperation_rate_b[2] # 0
                   /\ frac_eq(outcome.cooperation_rate_a, <<Cooperations(log.actions_a), n>>)
                   /\ frac_eq(outcome.cooperation_rate_b, <<Cooperations(log.actions_b), n>>)

\* A returned match of three rounds in which side A cooperated once and side B
\* twice.
C25_Witness ==
    /\ returned[1] # <<>>
    /\ rounds(returned[1][1].log) = 3
    /\ returned[1][1].outcome.cooperation_rate_a = <<1, 3>>
    /\ returned[1][1].outcome.cooperation_rate_b = <<2, 3>>
    /\ returned[1][1].outcome.total_payoff_a > 0

\* Pavlov's answer as the table of the four valid pairs (own, opponent).
PavlovTable(my_last, opp_last) ==
    IF <<my_last, opp_last>> = <<"C", "C">> THEN "C"
    ELSE IF <<my_last, opp_last>> = <<"D", "D">> THEN "D"
    ELSE IF <<my_last, opp_last>> = <<"C", "D">> THEN "D"
    ELSE IF <<my_last, opp_last>> = <<"D", "C">> THEN "C"
    ELSE "C"

C27_GenerousForgiveness ==
    Called("GTFT")
        => \A i \in 1..Len(hist) :
              /\ (hist[i].op = "first_move" \/ (hist[i].op = "next_move" /\ ~SawDefect(i)))
                   => /\ hist[i].result = "C"
                      /\ hist[i].after = hist[i].before
              /\ SawDefect(i)
                   => /\ hist[i].after.stream = hist[i].before.stream
                      /\ hist[i].after.pos = hist[i].before.pos + 1
                      /\ hist[i].result = "C" <=> Drawn(hist[i]) <= sobj[1].p
                      /\ hist[i].result = "D" <=> Drawn(hist[i]) > sobj[1].p
                      /\ sobj[1].p = Unit => hist[i].result = "C"

\* GenerousTitForTat(0.5) cooperated first without a draw, forgave a Defect on
\* the draw 0.0 and answered the next Defect with Defect on the draw 0.75.
C27_Witness ==
    /\ Called("GTFT")
    /\ sobj[1].p = 2
    /\ Len(hist) = 4
    /\ hist[2].op = "first_move" /\ hist[2].after = hist[2].before
    /\ SawDefect(3) /\ Drawn(hist[3]) = 0 /\ hist[3].result = "C"
    /\ SawDefect(4) /\ Drawn(hist[4]) = 3 /\ hist[4].result = "D"

\* The rounds of all play() calls of match m so far, the running one included.
RECURSIVE RoundsPlayed(_, _)
RoundsPlayed(m, k) ==
    IF k = 0 THEN IF pc[m] = "running" THEN frame[m].round_index ELSE 0
    ELSE rounds(returned[m][k].log) + RoundsPlayed(m, k - 1)

\* C28: the reset() that play() performs on each of its Players leaves the
\* strategy's memory as constructed; a Player with a seed, 0 included, gets its
\* generator back at the position it had after construction, a Player without
\* one keeps its generator where it was, so that an unseeded Player's position
\* counts the draws of all its matches.
C28_PlayerReset ==
    /\ [][\A m \in MatchIds :
             calls'[m] = calls[m] + 1
                 => \A x \in {matches[m].player_a, matches[m].player_b} :
                       /\ players'[x].strategy
                            = Strategy(players[x].strategy.kind, players[x].strategy.p)
                       /\ players[x].seed # None
                            => players'[x].rng
                                 = Player(players[x].strategy, None, players[x].seed).rng
                       /\ players[x].seed = None
                            => players'[x].rng = players[x].rng]_vars
    /\ [](Constructed(1)
            => \A x \in {matches[1].player_a, matches[1].player_b} :
                  (players[x].seed = None /\ players[x].strategy.kind = "RAND")
                      => players[x].rng.pos = RoundsPlayed(1, Len(returned[1])))

\* The second play() has started after a first one of two rounds: the Player
\* seeded with 0 is back at position 0 and the unseeded one stays at 2, the
\* GrimTrigger's betrayal forgotten.
C28_Witness ==
    /\ Constructed(1)
    /\ calls[1] = 2 /\ pc[1] = "running" /\ frame[1].round_index = 0
    /\ rounds(returned[1][1].log) = 2
    /\ players[1].seed = Some(0) /\ players[1].strategy.kind = "GRIM"
    /\ returned[1][1].log.actions_a[2] = "D"
    /\ players[1].strategy._betrayed = FALSE
    /\ players[1].rng.pos = 0
    /\ players[2].seed = None /\ players[2].strategy.kind = "RAND"
    /\ players[2].rng.pos = 2

\* C29: the match that run() constructs for repetition index i has seed s + i
\* when the tournament has seed s, and seed None when it has none; a further
\* repetition of a pair gets a seed the repetition before it did not have, and
\* the first repetition of a further pair gets the seed the first repetition of
\* every pair has.
C29_MatchSeeds ==
    [][(tpc = "running" /\ tpc' = "playing")
          => /\ tour.seed = None => matches'[1].seed = None
             /\ tour.seed # None => matches'[1].seed = Some(tour.seed[1] + tframe.rep)
             /\ matches'[1].rng.pos = 0
             /\ matches'[1].rng.stream
                  = (IF tour.seed = None THEN None ELSE Some(Abs(tour.seed[1] + tframe.rep)))
             /\ (tour.seed # None /\ tframe.rep > 0) => matches'[1].seed # matches[1].seed
             /\ (tour.seed # None /\ tframe.rep = 0) => matches'[1].seed = tour.seed]_vars

\* The second repetition of the second pair of a seeded tournament is being
\* played with seed s + 1.
C29_Witness ==
    /\ tpc = "playing"
    /\ tour.seed = Some(0)
    /\ tframe.pair = 2 /\ tframe.rep = 1
    /\ matches[1].seed = Some(1)

\* The first roster position that holds the Player id.
PositionOf(id) == CHOOSE i \in DOMAIN tour.players : tour.players[i] = id

\* The roster positions (side A, side B) of the match mt.
Pairing(mt) == <<PositionOf(mt.player_a), PositionOf(mt.player_b)>>

\* C30: run() plays each unordered pair of distinct roster positions exactly
\* `repetitions` times and nothing else: side A is always the earlier roster
\* member, the repetitions of a pair follow one another, a pair once left is
\* never played again in either order, and the run ends after
\* N * (N - 1) / 2 * repetitions matches.
C30_RoundRobinPairs ==
    /\ [][(tpc = "running" /\ tpc' = "playing")
             => LET j == Len(tframe.matches)
                    new == Pairing(matches'[1])
                    old == Pairing(matches[1])
                IN  /\ matches'[1].player_a # matches'[1].player_b
                    /\ new[1] < new[2]
                    /\ j % tour.repetitions # 0 => new = old
                    /\ (j > 0 /\ j % tour.repetitions = 0)
                         => (old[1] < new[1] \/ (old[1] = new[1] /\ old[2] < new[2]))]_vars
    /\ [](\A k \in 1..Len(results) :
            LET N == Len(tour.players) IN
            2 * Len(results[k]) = N * (N - 1) * tour.repetitions)


\* The opponent's logged action was Defect in some round before round i.
DefectedBefore(opp, i) == \E j \in 1..(i - 1) : opp[j] = "D"

\* The action a Player of the given kind takes in round i of a match without
\* noise when nothing but this match's rounds counts; own and opp are the two
\* logged action lists.
FreshAnswer(kind, own, opp, i) ==
    IF kind = "GRIM" THEN (IF DefectedBefore(opp, i) THEN "D" ELSE "C")
    ELSE IF kind = "TF2T"
    THEN (IF i >= 3 /\ opp[i - 1] = "D" /\ opp[i - 2] = "D" THEN "D" ELSE "C")
    ELSE own[i]

\* C31: play() resets both Players before round 0: when a match of a
\* tournament is about to play round 0 the GrimTrigger latch is cleared and the
\* TitForTwoTats streak is 0 whatever the match before left, and every action
\* of the match is the one that follows from this match's rounds alone.
C31_MemoryNotCarried ==
    (tpc = "playing" /\ pc[1] = "running")
        => LET a == matches[1].player_a
               b == matches[1].player_b
               log == frame[1].log
           IN  /\ frame[1].round_index = 0
                    => \A x \in {a, b} :
                          /\ players[x].strategy._betrayed = FALSE
                          /\ players[x].strategy._defection_streak = 0
                          /\ players[x].strategy._last_action = "C"
               /\ \A i \in 1..rounds(log) :
                     /\ log.actions_a[i]
                          = FreshAnswer(players[a].strategy.kind, log.actions_a,
                                        log.actions_b, i)
                     /\ log.actions_b[i]
                          = FreshAnswer(players[b].strategy.kind, log.actions_b,
                                        log.actions_a, i)

\* GrimTrigger defected in the last round of its match against AllDefect, and
\* its match against AllCooperate is about to play round 0 with the latch
\* cleared.
C31_Witness ==
    /\ tpc = "playing" /\ pc[1] = "running"
    /\ frame[1].round_index = 0
    /\ tour.players = <<1, 2, 3>>
    /\ tour.n_rounds = 2
    /\ Len(tframe.matches) = 1
    /\ tframe.matches[1].outcome.cooperation_rate_a = <<1, 2>>
    /\ matches[1].player_a = 1 /\ matches[1].player_b = 3
    /\ players[1].strategy._betrayed = FALSE

\* The draws the two _apply_noise calls of one round take from the match's
\* generator.
NoiseDraws(mt) == IF mt.noise # None /\ mt.noise[1] > 0 THEN 2 ELSE 0

\* Match 1 is running under probabilistic termination with a seeded generator.
Probabilistic ==
    /\ pc[1] = "running"
    /\ matches[1].n_rounds = None
    /\ matches[1].rng.stream # None

\* C32: under probabilistic termination the check before round 0 takes no
\* draw and round 0 executes; the check before every later round takes exactly
\* one draw from the match's generator and the match continues exactly when the
\* draw is < continuation_prob; the stopping draw moves no Player's generator,
\* and no step moves the generator of a Player whose strategy does not draw.
C32_ContinuationDraw ==
    [][Probabilistic
          => LET r == frame[1].round_index
                 mt == matches[1]
                 at == mt.rng.pos
                 d == tape'[mt.rng.stream[1]][at + 1]
                 continued == pc'[1] = "running" /\ frame'[1].round_index = r + 1
                 stopped == pc'[1] = "idle" /\ Len(returned'[1]) = Len(returned[1]) + 1
             IN  /\ matches'[1].rng.stream = mt.rng.stream
                 /\ r = 0 => /\ continued
                             /\ matches'[1].rng.pos = at + NoiseDraws(mt)
                 /\ r > 0 => /\ continued <=> d < mt.continuation_prob[1]
                             /\ stopped <=> d >= mt.continuation_prob[1]
                             /\ continued => matches'[1].rng.pos = at + 1 + NoiseDraws(mt)
                             /\ stopped => matches'[1].rng.pos = at + 1
                 /\ stopped => players' = players
                 /\ \A x \in {mt.player_a, mt.player_b} :
                       players[x].strategy.kind \notin {"RAND", "GTFT"}
                           => players'[x].rng = players[x].rng]_vars

\* A match with continuation_prob 0.5 played round 1 on the draw 0.0 and
\* returned on the draw 0.75, its RandomStrategy Players at two draws each.
C32_Witness ==
    /\ Constructed(1)
    /\ matches[1].n_rounds = None /\ matches[1].continuation_prob = Some(2)
    /\ matches[1].noise = None
    /\ matches[1].rng.stream = Some(1)
    /\ pc[1] = "idle" /\ returned[1] # <<>>
    /\ rounds(returned[1][1].log) = 2
    /\ matches[1].rng.pos = 2
    /\ tape[1][1] = 0 /\ tape[1][2] = 3
    /\ players[1].strategy.kind = "RAND" /\ players[1].rng.pos = 2
    /\ players[2].strategy.kind = "TFT" /\ players[2].rng.pos = 0

\* max(n_rounds, 0) of match m.
RoundLimit(m) == IF matches[m].n_rounds[1] > 0 THEN matches[m].n_rounds[1] ELSE 0

\* Match 1 is running with both n_rounds and continuation_prob set and a
\* seeded generator.
BothSet ==
    /\ pc[1] = "running"
    /\ matches[1].n_rounds # None
    /\ matches[1].continuation_prob # None
    /\ matches[1].rng.stream # None

\* C33: with n_rounds set, continuation_prob set or not, no log of play() has
\* more than max(n_rounds, 0) rounds; with both set the match stops without a
\* draw once n_rounds rounds are logged, and before that it stops at the first
\* draw that is not < continuation_prob.
C33_RoundsBounded ==
    /\ [](\A m \in MatchIds :
            (Constructed(m) /\ matches[m].n_rounds # None)
                => /\ rounds(frame[m].log) <= RoundLimit(m)
                   /\ \A k \in 1..Len(returned[m]) :
                         rounds(returned[m][k].log) <= RoundLimit(m))
    /\ [][BothSet
            => LET r == frame[1].round_index
                   mt == matches[1]
                   at == mt.rng.pos
                   d == tape'[mt.rng.stream[1]][at + 1]
                   continued == pc'[1] = "running" /\ frame'[1].round_index = r + 1
                   stopped == pc'[1] = "idle" /\ Len(returned'[1]) = Len(returned[1]) + 1
               IN  IF r >= mt.n_rounds[1]
                   THEN stopped /\ matches'[1].rng = mt.rng
                   ELSE IF r = 0 THEN continued
                   ELSE /\ continued <=> d < mt.continuation_prob[1]
                        /\ stopped <=> d >= mt.continuation_prob[1]]_vars

\* A match with n_rounds 2 and continuation_prob 0.5 returned after one round:
\* the draw before round 1 was 0.75.
C33_Witness ==
    /\ Constructed(1)
    /\ matches[1].n_rounds = Some(2) /\ matches[1].continuation_prob = Some(2)
    /\ matches[1].noise = None
    /\ matches[1].rng.stream = Some(1)
    /\ returned[1] # <<>>
    /\ rounds(returned[1][1].log) = 1
    /\ matches[1].rng.pos = 1
    /\ tape[1][1] = 3

\* C34: a play() that is running eventually returns; with n_rounds set and no
\* continuation_prob it returns after max(n_rounds, 0) rounds, and with a
\* continuation_prob < 1 it returns once a continuation draw fails.
C34_PlayReturns ==
    /\ (pc[1] = "running") ~> (pc[1] = "idle" /\ Len(returned[1]) = 1)
    /\ [](FixedTermination(1)
            => \A k \in 1..Len(returned[1]) :
                  rounds(returned[1][k].log) = RoundLimit(1))

\* A match under probabilistic termination alone returned after two rounds.
C34_Witness ==
    /\ Constructed(1)
    /\ matches[1].n_rounds = None /\ matches[1].continuation_prob = Some(2)
    /\ pc[1] = "idle" /\ Len(returned[1]) = 1
    /\ rounds(returned[1][1].log) = 2

\* The log of play() on the match mt when nothing else runs meanwhile: the
\* loop of play() from the frame fr with the Players ps, every draw read from
\* the tape tp.
RECURSIVE Replay(_, _, _, _)
Replay(mt, fr, ps, tp) ==
    LET c == CHOOSE x \in _continue(mt, fr.round_index, tp) : TRUE IN
    IF ~c.result \/ fr.round_index >= MaxRounds THEN fr.log
    ELSE LET r == CHOOSE x \in round_body(mt, fr, ps, c.rng, c.tape) : TRUE
             pay == payoff(mt.payoff_matrix, r.a_eff, r.b_eff)
         IN  Replay([mt EXCEPT !.rng = r.rng],
                    [fr EXCEPT !.log = append(@, r.a_eff, r.b_eff, pay[1], pay[2]),
                               !.asked = r.asked,
                               !.a_prev = r.a_eff,
                               !.b_prev = r.b_eff,
                               !.round_index = @ + 1],
                    r.players, r.tape)

\* The log the first play() of match m produces when it runs alone: generator
\* as constructed, both Players reset.
SequentialLog(m) ==
    LET mt == [matches[m] EXCEPT !.rng = make_rng(matches[m].seed)]
        ps1 == [players EXCEPT ![mt.player_a] = Player_reset(@)]
        ps == [ps1 EXCEPT ![mt.player_b] = Player_reset(@)]
    IN  Replay(mt, NewFrame, ps, tape)

\* The log is the first rounds of the log full.
IsPrefix(log, full) ==
    \A f \in DOMAIN log :
        /\ Len(log[f]) <= Len(full[f])
        /\ SubSeq(full[f], 1, Len(log[f])) = log[f]

\* C35: two matches on disjoint Players, each with its own generator, whose
\* rounds interleave in any order each log, round by round, what they log when
\* run alone, and each return the log they return when run alone.
C35_InterleavingHarmless ==
    \A m \in MatchIds :
        Constructed(m)
            => /\ pc[m] = "running" => IsPrefix(frame[m].log, SequentialLog(m))
               /\ \A k \in 1..Len(returned[m]) : returned[m][k].log = SequentialLog(m)

\* Both matches are running under noise, one round logged each, with different
\* logs.
C35_Witness ==
    /\ pc[1] = "running" /\ pc[2] = "running"
    /\ frame[1].round_index = 1 /\ frame[2].round_index = 1
    /\ matches[1].noise = Some(2) /\ matches[2].noise = Some(2)
    /\ players[1].strategy.kind = "RAND" /\ players[3].strategy.kind = "RAND"
    /\ frame[1].log # frame[2].log

====
